---- MODULE Spec2Model ----
(***************************************************************************)
(* State-machine model of pdf-zipper v2: the conversion queue and its      *)
(* worker (processJob), the feed poller with two-level deduplication and   *)
(* the metadata router, and the process lifecycle (browser singleton,      *)
(* capture contexts, signal handlers and shutdown).                        *)
(***************************************************************************)
EXTENDS Integers, Sequences, FiniteSets, TLC

(***************************************************************************)
(* Bounds of the model                                                     *)
(***************************************************************************)
MaxJobs == 1
MaxPolls == 2
MaxFaults == 1
MaxContexts == 2
MaxPollSlots == 2
MaxRequests == 2
MaxMediaJobs == 2
LastDay == 7
FirstYear == 2019
LastYear == 2025
MaxRoutes == 4
MaxPodJobs == 2
MaxAdds == 3
MaxBookmarks == 1060
MaxFixCalls == 2

(***************************************************************************)
(* Program constants                                                       *)
(***************************************************************************)
ConversionAttempts == 3
FeedAttempts == 3
MetadataAttempts == 3
MetadataConcurrency == 2
FeedPollConcurrency == 1
MIN_SCREENSHOT_SIZE == 15000
MIN_PDF_SIZE == 5000
MIN_ARTICLE_CHARS == 500
LARGE_PDF_THRESHOLD == 524288
MIN_CHARS_FOR_LARGE_PDF == 1000
MIN_CHARS_PER_KB == 5
SUFFICIENT_CHARS_BYPASS_RATIO == 3000
MIN_CHARS_PER_PAGE_BYPASS == 400
MAX_CHARS_FOR_ERROR_PAGE == 2000
MediaAttempts == 5
WhisperHeadersTimeout == 1800000
WhisperBodyTimeout == 1800000
WhisperConnectTimeout == 30000
MediaBackoffDelay == 60000
MediaConcurrency == 2
PodcastAttempts == 2
PAGE_LIMIT == 50
MAX_PAGES == 20
maxChunkSize == 15000
ShortTranscript == 500

VARIABLES
    cjobs,      \* conversion queue records: id -> job record
    h,          \* the conversion worker's single handler slot (concurrency 1)
    fs,         \* weekly-bin files: resolved path -> file
    debug,      \* job ids whose DATA_DIR/debug/{jobId}.pdf exists
    notified,   \* id -> number of notifyJobFailed calls
    completedN, \* id -> number of notifyJobComplete calls
    runs,       \* id -> number of times processJob was started
    seenGuids,  \* feed:guids:{source} sets, as pairs <<source, guid>>
    seenUrls,   \* bookmarks:seen-urls
    fcache,     \* feed:cache:{source} etag, per source
    pj,         \* feed-monitor queue: the poll job of each source
    polls,      \* number of scheduler ticks so far
    faults,     \* handler runs that have raised so far
    poll,       \* the feed poll worker's handler slots (concurrency 1: one is used)
    mjobs,      \* metadata-extraction queue: sequence of job records
    convEnq,    \* conversion jobs enqueued by the metadata worker, by URL
    podEnq,     \* podcast jobs enqueued by the metadata worker, by URL
    mediaIds,   \* job ids present in the media-collection queue
    main,       \* position of the entry point's startup sequence
    wstate,     \* worker -> notStarted / running / closing / closed
    busy,       \* worker -> a handler of it is in flight (workers other than conversion)
    cap,        \* position of the conversion handler in convertUrlToPDF
    browserInstance, \* the manager's module-level singleton (0 = null)
    launched,   \* number of createStealthBrowser() calls that have resolved
    openBrowsers,    \* launched browsers that were not closed
    ctxCreated, \* number of browser.newContext() calls that have resolved
    openContexts,    \* contexts created and not closed
    workerHandlers,  \* startWorker has registered its SIGTERM/SIGINT listeners
    indexHandlers,   \* the entry point has registered its SIGTERM/SIGINT listeners
    isShuttingDownWorker, \* isShuttingDown of the conversion worker module
    isShuttingDownIndex,  \* isShuttingDown of the entry point
    wsd,        \* position of the conversion worker's gracefulShutdown
    isd,        \* position of the entry point's gracefulShutdown
    exited,     \* the process has terminated
    adisk,      \* files the HTTP routes can reach: resolved path -> file
    touched,    \* disk accesses made by the HTTP routes: path and operation
    aconv,      \* conversion jobs enqueued by the HTTP routes
    apod,       \* podcast jobs enqueued by the HTTP routes
    resp,       \* the response of the last HTTP request
    requests,   \* number of HTTP requests handled so far
    mq,         \* media-collection jobs: state, attempts, item, handler position
    mdisk,      \* media files on disk: path -> size, NoSize when absent
    today,      \* the day the clock shows
    usedPaths,  \* destination paths downloadMedia has computed, per item
    weekDate,   \* the calendar date last given to getISOWeekNumber
    weekResult, \* what getISOWeekNumber returned for it
    asr,        \* the Whisper request in flight: position and the server's timing
    rq, \* media-collection queue as the router sees it: sequence of job records
    routes, \* number of times the router reached the media enqueue
    lastAdd, \* the last mediaCollectionQueue.add: URL, job id and whether a job was created
    kTotal, \* number of bookmarks the Karakeep API holds (guids 1..kTotal, oldest first)
    kSeen, \* feed:guids:karakeep as the pagination sees it
    kp, \* the Karakeep poll in progress: position, cursor, page count, items
    kAdds, \* number of times bookmarks were added
    kLast, \* items the last finished poll emitted (NoPollYet after an addition)
    podq, \* podcast-transcription jobs: state, attempts made, handler position
    ptemp, \* temporary audio files on disk, per job: the attempts that downloaded them
    parchived, \* jobs whose PDF and audio are in the weekly bin
    pnotified, \* failure notifications sent, per job
    fxPending, \* Redis list fix:pending
    fxRecent, \* Redis hash fix:recent-attempts (its keys)
    fxAdd, \* the addPendingFixes call in flight
    fxCons, \* the consumePendingFixes call in flight
    fxPushed, \* every item rpush-ed so far
    fxReturned, \* every item returned by consumePendingFixes so far
    fxCalls, \* calls started so far
    chText, \* the raw transcript handed to formatTranscriptWithLLM
    chChunks, \* lengths of the chunks sent to formatChunk
    chDone  \* whether formatTranscriptWithLLM has run

convVars == <<cjobs, h, fs, debug, notified, completedN, runs>>

feedVars == <<seenGuids, seenUrls, fcache, pj, polls, faults, poll, mjobs, convEnq, podEnq,
              mediaIds>>

procVars == <<main, wstate, busy, cap, browserInstance, launched, openBrowsers, ctxCreated,
              openContexts, workerHandlers, indexHandlers, isShuttingDownWorker,
              isShuttingDownIndex, wsd, isd, exited>>

apiVars == <<adisk, touched, aconv, apod, resp, requests>>

mediaVars == <<mq, mdisk, today, usedPaths>>

weekVars == <<weekDate, weekResult>>

asrVars == <<asr>>

routeVars == <<rq, routes, lastAdd>>

pageVars == <<kTotal, kSeen, kp, kAdds, kLast>>

podVars == <<podq, ptemp, parchived, pnotified>>

fixVars == <<fxPending, fxRecent, fxAdd, fxCons, fxPushed, fxReturned, fxCalls>>

chunkVars == <<chText, chChunks, chDone>>

notConv == <<feedVars, procVars, apiVars, mediaVars, weekVars, asrVars, routeVars, pageVars, podVars, fixVars, chunkVars>>
notFeed == <<convVars, procVars, apiVars, mediaVars, weekVars, asrVars, routeVars, pageVars, podVars, fixVars, chunkVars>>

notProc == <<convVars, feedVars, apiVars, mediaVars, weekVars, asrVars, routeVars, pageVars, podVars, fixVars, chunkVars>>

notApi == <<convVars, feedVars, procVars, mediaVars, weekVars, asrVars, routeVars, pageVars, podVars, fixVars, chunkVars>>

notMedia == <<convVars, feedVars, procVars, apiVars, weekVars, asrVars, routeVars, pageVars, podVars, fixVars, chunkVars>>

notWeek == <<convVars, feedVars, procVars, apiVars, mediaVars, asrVars, routeVars, pageVars, podVars, fixVars, chunkVars>>

notAsr == <<convVars, feedVars, procVars, apiVars, mediaVars, weekVars, routeVars, pageVars, podVars, fixVars, chunkVars>>

notRoute == <<convVars, feedVars, procVars, apiVars, mediaVars, weekVars, asrVars, pageVars, podVars, fixVars, chunkVars>>

notPage == <<convVars, feedVars, procVars, apiVars, mediaVars, weekVars, asrVars, routeVars, podVars, fixVars, chunkVars>>

notPod == <<convVars, feedVars, procVars, apiVars, mediaVars, weekVars, asrVars, routeVars, pageVars, fixVars, chunkVars>>

notFix == <<convVars, feedVars, procVars, apiVars, mediaVars, weekVars, asrVars, routeVars, pageVars, podVars, chunkVars>>

notChunk == <<convVars, feedVars, procVars, apiVars, mediaVars, weekVars, asrVars, routeVars, pageVars, podVars, fixVars>>

vars == <<convVars, feedVars, procVars, apiVars, mediaVars, weekVars, asrVars, routeVars, pageVars, podVars, fixVars, chunkVars>>

(***************************************************************************)
(* Conversion queue and worker                                             *)
(***************************************************************************)
JobIds == 1..MaxJobs

NoPath == "none"

\* oldFilePath values a rerun endpoint may pass (absolute, possibly with a
\* ".." segment) and file paths savePdfToWeeklyBin may return (relative to
\* the working directory when DATA_DIR is the default ./data).
RawOldPaths == {"/app/data/x/../a.pdf", "/app/data/b.pdf"}
RawNewPaths == {"data/a.pdf", "data/b.pdf"}
Paths == {"/app/data/a.pdf", "/app/data/b.pdf"}

\* path.resolve with working directory /app
Resolve(p) ==
    CASE p \in {"/app/data/a.pdf", "/app/data/x/../a.pdf", "data/a.pdf"} -> "/app/data/a.pdf"
      [] p \in {"/app/data/b.pdf", "data/b.pdf"} -> "/app/data/b.pdf"
      [] OTHER -> p

PdfSizes == {0, 4999, 5000}
ShotSizes == {0, 14999, 15000}
SavedSizes == {4999, 5000}

Absent == [by |-> -1, size |-> 0]
PreExisting == [by |-> 0, size |-> 5000]
Written(size) == [by |-> 1, size |-> size]

CaptureFailures == {"timeout", "bot_detected", "navigation_error"}
DownloadFailures == {"download_failed", "not_pdf"}
\* issue labels the vision model may report for a non-passing score;
\* "quality_failed" stands for a missing label
QualityIssues == {"paywall", "bot_detected", "login_required", "quality_failed"}
\* prefixes the catch block around scoring re-throws
RethrownPrefixes == {"blank_page", "paywall", "bot_detected", "quality_failed",
                     "truncated", "low_contrast", "missing_content", "unknown"}

\* Error messages are sequences of text pieces, so that a prefix is something to test.
NoReason == << >>
\* `${reason}: ${error}`
Template(reason, error) == <<reason, ": ">> \o error
\* the human-readable part of a classified failure
Detail == <<"detail">>
\* errors that reach the handler's caller as they were raised: a rejected
\* job.updateProgress (Redis), an exception out of convertUrlToPDF, and a failed
\* mkdir/writeFile in savePdfToWeeklyBin
RedisError == <<"Connection is closed.">>
BrowserError == <<"browser has been closed">>
FsError == <<"EACCES", ": ", "permission denied, open">>
\* the kinds the failure taxonomy lists
ErrorKinds == {"timeout", "navigation_error", "bot_detected", "blank_page", "paywall",
               "truncated", "low_contrast", "missing_content", "quality_failed", "unknown"}
\* "{kind}: {message}" with a listed kind
HasKindForm(error) == Len(error) >= 3 /\ error[1] \in ErrorKinds /\ error[2] = ": "

NoText == [parsed |-> FALSE, chars |-> 0, pages |-> 0, errorPage |-> FALSE, paywall |-> FALSE]

NoJob == [state |-> "none", attemptsMade |-> 0, isPdf |-> FALSE, old |-> NoPath,
          pdfPath |-> NoPath, pdfSize |-> 0, failedReason |-> NoReason]

Idle == [job |-> 0, pc |-> "idle", success |-> FALSE, reason |-> "none",
         pdf |-> 0, shot |-> 0, path |-> NoPath, oldExisted |-> FALSE,
         unlinkFailed |-> FALSE, vision |-> "none", score |-> 0, issue |-> "none",
         text |-> NoText]

ProgressPoints == {"p10", "p50", "p90", "p100"}

WillRetry_OffByOne(attemptsMade) == attemptsMade <= ConversionAttempts

\* BullMQ: a handler that raises is retried while attemptsMade < attempts
WillRetry(attemptsMade) == attemptsMade < ConversionAttempts

ShouldNotifyFailed_EveryFailure(attemptsMade) == attemptsMade >= 1

\* conversionWorker.on('failed'): notify only on the final failure
ShouldNotifyFailed(attemptsMade) == attemptsMade >= ConversionAttempts

ScreenshotTooSmall_Inclusive(shot) == shot <= MIN_SCREENSHOT_SIZE

\* result.screenshotBuffer.length < MIN_SCREENSHOT_SIZE
ScreenshotTooSmall(shot) == shot < MIN_SCREENSHOT_SIZE

IsBlankPage_NoPdfFloor(shot, pdf) ==
    IF shot = 0 THEN FALSE ELSE shot < MIN_SCREENSHOT_SIZE

\* processJob: blank-page heuristic
IsBlankPage(shot, pdf) ==
    IF shot = 0 THEN pdf < MIN_PDF_SIZE
    ELSE ScreenshotTooSmall(shot) \/ pdf < MIN_PDF_SIZE

ShouldUnlinkOld_Always(old, new) == TRUE

\* deleteOldFileIfDifferent: unlink only when the resolved paths differ
ShouldUnlinkOld(old, new) == Resolve(old) # Resolve(new)

\* saveDebugPdf: nothing is written for an empty buffer; a write error is swallowed
SaveDebugPdf(j, pdf, wrote) == IF pdf > 0 /\ wrote THEN debug \cup {j} ELSE debug

\* The handler raised: BullMQ records the failure, schedules a retry or fails the
\* job terminally, and the worker's 'failed' listener runs.
HandlerThrows(error) ==
    LET j == h.job
        made == cjobs[j].attemptsMade + 1
    IN  /\ cjobs' = [cjobs EXCEPT ![j].attemptsMade = made,
                                  ![j].failedReason = error,
                                  ![j].state = IF WillRetry(made) THEN "delayed" ELSE "failed"]
        /\ notified' = [notified EXCEPT ![j] = IF ShouldNotifyFailed(made) THEN @ + 1 ELSE @]
        /\ h' = Idle

\* whether the file a job's oldFilePath names is on disk
OldFileExists(old) == old # NoPath /\ fs[Resolve(old)] # Absent

ConvInit ==
    /\ cjobs = [j \in JobIds |-> NoJob]
    /\ h = Idle
    /\ fs \in [Paths -> {Absent, PreExisting}]
    /\ debug = {}
    /\ notified = [j \in JobIds |-> 0]
    /\ completedN = [j \in JobIds |-> 0]
    /\ runs = [j \in JobIds |-> 0]

\* conversionQueue.add: jobs get consecutive ids
Submit ==
    \E j \in JobIds, isPdf \in BOOLEAN, old \in RawOldPaths \cup {NoPath} :
        /\ cjobs[j].state = "none"
        /\ \A k \in JobIds : k < j => cjobs[k].state # "none"
        /\ cjobs' = [cjobs EXCEPT ![j] = [NoJob EXCEPT !.state = "waiting",
                                                        !.isPdf = isPdf, !.old = old]]
        /\ UNCHANGED <<h, fs, debug, notified, completedN, runs>>
        /\ UNCHANGED notConv

\* the worker (concurrency 1) takes a waiting job and calls processJob
Activate ==
    \E j \in JobIds :
        /\ h.job = 0
        /\ cjobs[j].state = "waiting"
        /\ cjobs' = [cjobs EXCEPT ![j].state = "active"]
        /\ h' = [Idle EXCEPT !.job = j, !.pc = "p10",
                              !.oldExisted = OldFileExists(cjobs[j].old)]
        /\ runs' = [runs EXCEPT ![j] = @ + 1]
        /\ UNCHANGED <<fs, debug, notified, completedN>>
        /\ UNCHANGED notConv

\* the backoff delay of a failed attempt elapses
Retry ==
    \E j \in JobIds :
        /\ cjobs[j].state = "delayed"
        /\ cjobs' = [cjobs EXCEPT ![j].state = "waiting"]
        /\ UNCHANGED <<h, fs, debug, notified, completedN, runs>>
        /\ UNCHANGED notConv

\* job.updateProgress(n) succeeds; after progress 50 a failed capture or download raises
UpdateProgress ==
    /\ h.pc \in ProgressPoints
    /\ LET isPdf == cjobs[h.job].isPdf IN
       IF h.pc = "p50" /\ ~h.success
       THEN HandlerThrows(Template(h.reason, Detail)) /\ UNCHANGED <<fs, debug, completedN, runs>>
       ELSE /\ h' = [h EXCEPT !.pc =
                       CASE h.pc = "p10" -> IF isPdf THEN "download" ELSE "capture"
                         [] h.pc = "p50" -> IF isPdf THEN "save" ELSE "blank"
                         [] h.pc = "p90" -> "save"
                         [] h.pc = "p100" -> IF isPdf THEN "delete" ELSE "return"]
            /\ UNCHANGED <<cjobs, fs, debug, notified, completedN, runs>>
    /\ UNCHANGED notConv

\* job.updateProgress(n) rejects (the queue store refuses the write)
ProgressRejects ==
    /\ h.pc \in ProgressPoints
    /\ HandlerThrows(RedisError)
    /\ UNCHANGED <<fs, debug, completedN, runs>>
    /\ UNCHANGED notConv

\* downloadPdfDirect: never raises, returns a success or a failure result
Download ==
    /\ h.pc = "download"
    /\ \/ \E size \in PdfSizes :
            h' = [h EXCEPT !.pc = "p50", !.success = TRUE, !.pdf = size]
       \/ \E r \in DownloadFailures :
            h' = [h EXCEPT !.pc = "p50", !.success = FALSE, !.reason = r]
    /\ UNCHANGED <<cjobs, fs, debug, notified, completedN, runs>>
    /\ UNCHANGED notConv

\* convertUrlToPDF: a success result, a failure result, or an exception
Capture ==
    /\ h.pc = "capture"
    /\ \/ /\ \E pdf \in PdfSizes, shot \in ShotSizes :
               h' = [h EXCEPT !.pc = "p50", !.success = TRUE, !.pdf = pdf, !.shot = shot]
          /\ UNCHANGED <<cjobs, notified>>
       \/ /\ \E r \in CaptureFailures :
               h' = [h EXCEPT !.pc = "p50", !.success = FALSE, !.reason = r]
          /\ UNCHANGED <<cjobs, notified>>
       \/ HandlerThrows(BrowserError)
    /\ UNCHANGED <<fs, debug, completedN, runs>>
    /\ UNCHANGED notConv

\* blank-page check before any scoring
BlankCheck ==
    /\ h.pc = "blank"
    /\ IF IsBlankPage(h.shot, h.pdf)
       THEN /\ \E wrote \in BOOLEAN : debug' = SaveDebugPdf(h.job, h.pdf, wrote)
            /\ HandlerThrows(Template("bot_detected", Detail))
       ELSE /\ h' = [h EXCEPT !.pc = "quality"]
            /\ UNCHANGED <<cjobs, notified, debug>>
    /\ UNCHANGED <<fs, completedN, runs>>
    /\ UNCHANGED notConv

\* what the vision call yields: ollama.chat raises (server unreachable), the reply
\* cannot be parsed even by the fallback pattern, or a score is parsed
VisionOutcomes == {"unreachable", "malformed", "scored"}
QUALITY_THRESHOLD == 50
VisionScores == {20, 85}
ScreenshotSkippedScore == 0 - 1
FallbackScore == 50

\* scoreScreenshotQuality up to the reply of the model; skipped without a screenshot
VisionCall ==
    /\ h.pc = "quality"
    /\ IF h.shot = 0
       THEN h' = [h EXCEPT !.pc = "scored", !.vision = "skipped",
                           !.score = ScreenshotSkippedScore]
       ELSE \/ \E v \in VisionOutcomes \ {"scored"} :
                 h' = [h EXCEPT !.pc = "scored", !.vision = v]
            \/ \E sc \in VisionScores :
                 \E issue \in (IF sc >= QUALITY_THRESHOLD THEN {"none"} ELSE QualityIssues) :
                    h' = [h EXCEPT !.pc = "scored", !.vision = "scored",
                                   !.score = sc, !.issue = issue]
    /\ UNCHANGED <<cjobs, fs, debug, notified, completedN, runs>>
    /\ UNCHANGED notConv

\* the catch block around scoring: an error with a listed prefix is raised again,
\* any other error falls back to a pass with score 50
QualityCatch(error, wrote) ==
    IF Len(error) >= 2 /\ error[1] \in RethrownPrefixes /\ error[2] = ": "
    THEN /\ debug' = SaveDebugPdf(h.job, h.pdf, wrote)
         /\ HandlerThrows(error)
    ELSE /\ debug' = SaveDebugPdf(h.job, h.pdf, wrote)
         /\ h' = [h EXCEPT !.pc = "content", !.vision = "none", !.issue = "none",
                           !.score = FallbackScore]
         /\ UNCHANGED <<cjobs, notified>>

\* the rest of the visual stage. An unparsable reply is a failed result with score 0
\* and issue 'unknown'; a parsed score below the threshold fails with the model's
\* issue label ('quality_failed' without one); a failed result saves the debug PDF
\* and raises inside the try block.
QualityCheck ==
    /\ h.pc = "scored"
    /\ CASE h.vision = "skipped" ->
              /\ h' = [h EXCEPT !.pc = "content", !.vision = "none"]
              /\ UNCHANGED <<cjobs, notified, debug>>
         [] h.vision = "unreachable" ->
              QualityCatch(<<"fetch failed">>, FALSE)
         [] h.vision = "malformed" ->
              \E wrote \in BOOLEAN : QualityCatch(Template("unknown", Detail), wrote)
         [] h.vision = "scored" ->
              IF h.score >= QUALITY_THRESHOLD
              THEN /\ h' = [h EXCEPT !.pc = "content", !.vision = "none"]
                   /\ UNCHANGED <<cjobs, notified, debug>>
              ELSE \E wrote \in BOOLEAN : QualityCatch(Template(h.issue, Detail), wrote)
    /\ UNCHANGED <<fs, completedN, runs>>
    /\ UNCHANGED notConv

\* extracted text of a captured PDF, by the features analyzePdfContent looks at
TextSamples ==
    { [parsed |-> TRUE, chars |-> 3000, pages |-> 2, errorPage |-> FALSE, paywall |-> FALSE],
      [parsed |-> TRUE, chars |-> 3000, pages |-> 2, errorPage |-> FALSE, paywall |-> TRUE],
      [parsed |-> TRUE, chars |-> 499, pages |-> 1, errorPage |-> FALSE, paywall |-> TRUE],
      [parsed |-> TRUE, chars |-> 1999, pages |-> 1, errorPage |-> TRUE, paywall |-> FALSE],
      [parsed |-> FALSE, chars |-> 0, pages |-> 0, errorPage |-> FALSE, paywall |-> FALSE] }

\* analyzePdfContent: whether the PDF passes. A PDF that cannot be parsed passes;
\* otherwise the checks are an error-page pattern in a short text, too little text,
\* a large PDF with little text, and a low text density over several pages.
AnalyzePdfContent(text, pdfSize) ==
    \/ ~text.parsed
    \/ /\ ~(text.chars < MAX_CHARS_FOR_ERROR_PAGE /\ text.errorPage)
       /\ ~(text.chars < MIN_ARTICLE_CHARS)
       /\ ~(pdfSize > LARGE_PDF_THRESHOLD /\ text.chars < MIN_CHARS_FOR_LARGE_PDF)
       /\ ~(/\ text.pages > 1
            /\ text.chars * 1024 < MIN_CHARS_PER_KB * pdfSize \/ pdfSize = 0
            /\ text.chars < SUFFICIENT_CHARS_BYPASS_RATIO
            /\ text.chars < MIN_CHARS_PER_PAGE_BYPASS * text.pages)

\* parser.getText() on the captured PDF
ExtractText ==
    /\ h.pc = "content"
    /\ \E t \in TextSamples : h' = [h EXCEPT !.pc = "analysed", !.text = t]
    /\ UNCHANGED <<cjobs, fs, debug, notified, completedN, runs>>
    /\ UNCHANGED notConv

\* the verdict of analyzePdfContent: pass, or fail as truncated after saving the debug PDF
ContentCheck ==
    /\ h.pc = "analysed"
    /\ IF AnalyzePdfContent(h.text, h.pdf)
       THEN /\ h' = [h EXCEPT !.pc = "p90", !.text = NoText]
            /\ UNCHANGED <<cjobs, notified, debug>>
       ELSE /\ \E wrote \in BOOLEAN : debug' = SaveDebugPdf(h.job, h.pdf, wrote)
            /\ HandlerThrows(Template("truncated", Detail))
    /\ UNCHANGED <<fs, completedN, runs>>
    /\ UNCHANGED notConv

\* savePdfToWeeklyBin: embed metadata, mkdir, writeFile. The file name follows from
\* the URL, title, date and capture flags. mkdir or writeFile may raise; a failed
\* writeFile may leave a truncated file at the target.
Save ==
    /\ h.pc = "save"
    /\ \E raw \in RawNewPaths :
         \/ /\ \E size \in (SavedSizes \cup {h.pdf}) \ {0} :
                 fs' = [fs EXCEPT ![Resolve(raw)] = Written(size)]
            /\ h' = [h EXCEPT !.path = raw,
                              !.pc = IF cjobs[h.job].isPdf THEN "p100" ELSE "delete"]
            /\ UNCHANGED <<cjobs, notified>>
         \/ /\ fs' \in {fs, [fs EXCEPT ![Resolve(raw)] = Written(0)]}
            /\ HandlerThrows(FsError)
    /\ UNCHANGED <<debug, completedN, runs>>
    /\ UNCHANGED notConv

\* if (oldFilePath) await deleteOldFileIfDifferent(oldFilePath, filePath): never raises.
\* unlink removes the file, finds none (ENOENT), or fails with another error that is
\* logged and swallowed.
DeleteOld ==
    /\ h.pc = "delete"
    /\ LET old == cjobs[h.job].old
           next == IF cjobs[h.job].isPdf THEN "return" ELSE "p100"
       IN  IF old # NoPath /\ ShouldUnlinkOld(old, h.path) /\ fs[Resolve(old)] # Absent
           THEN \E unlinked \in BOOLEAN :
                  /\ fs' = IF unlinked THEN [fs EXCEPT ![Resolve(old)] = Absent] ELSE fs
                  /\ h' = [h EXCEPT !.pc = next, !.unlinkFailed = ~unlinked]
           ELSE /\ fs' = fs
                /\ h' = [h EXCEPT !.pc = next]
    /\ UNCHANGED <<cjobs, debug, notified, completedN, runs>>
    /\ UNCHANGED notConv

\* processJob returns its result: the job completes and the 'completed' listener runs
Return ==
    /\ h.pc = "return"
    /\ cjobs' = [cjobs EXCEPT ![h.job].state = "completed",
                              ![h.job].attemptsMade = @ + 1,
                              ![h.job].pdfPath = h.path,
                              ![h.job].pdfSize = h.pdf]
    /\ completedN' = [completedN EXCEPT ![h.job] = @ + 1]
    /\ h' = Idle
    /\ UNCHANGED <<fs, debug, notified, runs>>
    /\ UNCHANGED notConv

ConvNext ==
    \/ Submit \/ Activate \/ Retry \/ UpdateProgress \/ ProgressRejects
    \/ Download \/ Capture \/ BlankCheck \/ VisionCall \/ QualityCheck
    \/ ExtractText \/ ContentCheck
    \/ Save \/ DeleteOld \/ Return

(***************************************************************************)
(* Claims about the conversion queue and worker                            *)
(***************************************************************************)
\* the handler attempt of the active job ends in failure in this step
AttemptFails == h.job # 0 /\ cjobs'[h.job].state \in {"delayed", "failed"}

\* C1: the file at a job's oldFilePath is removed only by the handler step that
\* follows a successful save to a different resolved path, and an attempt that
\* fails, at whatever stage, ends with the old file still on disk if it was
\* there when the attempt started.
C1_OldFileIntactOnFailure ==
    [][ /\ \A p \in Paths :
              (fs[p] # Absent /\ fs'[p] = Absent) =>
                  /\ h.pc = "delete"
                  /\ fs[Resolve(h.path)].by = 1
                  /\ Resolve(h.path) # p
        /\ (AttemptFails /\ h.oldExisted) => fs'[Resolve(cjobs[h.job].old)] # Absent
      ]_vars

\* the job in the handler completes in this step and carries an oldFilePath
RerunReturns == h.pc = "return" /\ cjobs[h.job].old # NoPath /\ cjobs'[h.job].state = "completed"

\* C13 (as stated): when a rerun job with oldFilePath = P_old returns success with
\* pdfPath = P_new, P_new exists, and P_old does not exist if and only if P_old and
\* P_new are different files.
C13_OldGoneIffDifferent ==
    [][ RerunReturns =>
          /\ fs'[Resolve(h.path)] # Absent
          /\ (fs'[Resolve(cjobs[h.job].old)] = Absent)
                <=> (Resolve(cjobs[h.job].old) # Resolve(h.path))
      ]_vars

\* C13 (amended): when such a job returns success, P_new exists; if P_old and P_new
\* resolve to the same file it was overwritten and exists; if they differ, P_old does
\* not exist unless its unlink failed with an error other than ENOENT, which the
\* worker logs and swallows.
C13_OldGoneUnlessUnlinkFailed ==
    [][ RerunReturns =>
          /\ fs'[Resolve(h.path)] # Absent
          /\ (Resolve(cjobs[h.job].old) = Resolve(h.path)) =>
                fs'[Resolve(cjobs[h.job].old)] # Absent
          /\ (Resolve(cjobs[h.job].old) # Resolve(h.path) /\ ~h.unlinkFailed) =>
                fs'[Resolve(cjobs[h.job].old)] = Absent
      ]_vars

\* a rerun whose old file was on disk saved under a different name and removed it
C13_Witness ==
    /\ h.pc = "return"
    /\ h.oldExisted
    /\ Resolve(cjobs[h.job].old) # Resolve(h.path)
    /\ fs[Resolve(cjobs[h.job].old)] = Absent
    /\ fs[Resolve(h.path)].by = 1

\* an attempt of a rendered capture fails in this step after the capture returned
\* a PDF with at least one byte
FailsAfterCapture ==
    /\ h.job # 0
    /\ ~cjobs[h.job].isPdf
    /\ h.success /\ h.pdf > 0
    /\ cjobs'[h.job].attemptsMade = cjobs[h.job].attemptsMade + 1
    /\ cjobs'[h.job].state \in {"delayed", "failed"}

\* C15: whenever a conversion attempt fails after the capture produced any PDF bytes,
\* the debug PDF of that job exists by the time the failure is recorded.
C15_DebugPdfOnFailureAfterCapture ==
    [][ FailsAfterCapture => h.job \in debug' ]_vars

\* C16: every error the conversion handler raises, and so every failedReason, has the
\* form "{kind}: {message}" with kind one of the ten listed kinds.
C16_FailedReasonHasKind ==
    \A j \in JobIds :
        cjobs[j].failedReason # NoReason => HasKindForm(cjobs[j].failedReason)

\* C17: when the vision model is unreachable, or its reply is still unparsable after
\* the fallback pattern, the visual stage passes with score -1 and the attempt does
\* not fail for that reason.
C17_VerifierUnavailablePassesMinusOne ==
    [][ (h.pc = "scored" /\ h' # h /\ h.vision \in {"unreachable", "malformed"}) =>
            (h'.pc = "content" /\ h'.score = 0 - 1) ]_vars

\* the attempt of the job in the handler fails in this step with an error whose
\* kind prefix is `kind`
RaisesKind(kind) ==
    /\ AttemptFails
    /\ cjobs'[h.job].attemptsMade = cjobs[h.job].attemptsMade + 1
    /\ Len(cjobs'[h.job].failedReason) >= 2
    /\ cjobs'[h.job].failedReason[1] = kind
    /\ cjobs'[h.job].failedReason[2] = ": "

C22_PaywallPhraseFailsAsPaywall ==
    [][ (h.pc = "analysed" /\ h' # h /\ h.text.parsed /\ h.text.paywall) =>
            RaisesKind("paywall") ]_vars

\* C29: whenever visual scoring returns a non-passing result, whatever the issue
\* label, the handler saves the debug PDF and raises, and no PDF is written to the
\* weekly bin in that attempt.
C29_NonPassingScoreAlwaysRaises ==
    [][ (h.pc = "scored" /\ h' # h /\ h.vision = "scored" /\ h.score < QUALITY_THRESHOLD) =>
            (AttemptFails /\ h.job \in debug' /\ fs' = fs) ]_vars

\* C4: a failure notification is emitted exactly once per conversion job, on the
\* failure of the last allowed attempt; attempts that will be retried emit none.
C4_FailureNotifiedOnceWhenTerminal ==
    \A j \in JobIds :
        /\ notified[j] = IF cjobs[j].state = "failed" THEN 1 ELSE 0
        /\ cjobs[j].state = "failed" => cjobs[j].attemptsMade >= ConversionAttempts
        /\ cjobs[j].state = "delayed" => cjobs[j].attemptsMade < ConversionAttempts

C4_Witness ==
    \E j \in JobIds : cjobs[j].state = "failed" /\ notified[j] = 1 /\ runs[j] = ConversionAttempts

C6_JobStateMachine ==
    [][ \A j \in JobIds :
          LET s == cjobs[j].state
              t == cjobs'[j].state
          IN  /\ runs'[j] <= 3
              /\ s # t =>
                   \/ s = "none" /\ t = "waiting"
                   \/ s = "waiting" /\ t = "active" /\ runs'[j] = runs[j] + 1
                   \/ s = "active" /\ t = "completed"
                   \/ s = "active" /\ t = "delayed" /\ cjobs'[j].attemptsMade < 3
                   \/ s = "active" /\ t = "failed" /\ cjobs'[j].attemptsMade >= 3
                   \/ s = "delayed" /\ t = "waiting"
              /\ s = t => runs'[j] = runs[j]
      ]_vars

C6_Witness ==
    \E j \in JobIds : cjobs[j].state = "failed" /\ runs[j] = 3 /\ cjobs[j].attemptsMade = 3


(***************************************************************************)
(* Feed poller, deduplicator and metadata router                           *)
(***************************************************************************)
Sources == {"matter", "karakeep"}

\* normalizeBookmarkUrl: strips www, tracking parameters, hash and trailing slash
NormalizeBookmarkUrl(u) ==
    CASE u = "https://www.example.com/x?utm_source=rss" -> "https://example.com/x"
      [] u = "https://www.youtube.com/watch?v=1" -> "https://youtube.com/watch?v=1"
      [] OTHER -> u

\* what each feed can list: guid, link and enclosure type of every bookmark
Catalog(s) ==
    IF s = "matter"
    THEN << [guid |-> "g1", url |-> "https://www.example.com/x?utm_source=rss", enc |-> "transcript"],
            [guid |-> "g2", url |-> "https://www.youtube.com/watch?v=1", enc |-> "none"] >>
    ELSE << [guid |-> "g1", url |-> "https://example.com/x", enc |-> "none"],
            [guid |-> "g2", url |-> "https://youtube.com/watch?v=1", enc |-> "none"],
            [guid |-> "g3", url |-> "https://podcasts.apple.com/us/podcast/x/id1?i=10", enc |-> "none"] >>

CanonicalUrls == {"https://example.com/x", "https://youtube.com/watch?v=1",
                  "https://podcasts.apple.com/us/podcast/x/id1?i=10"}

RECURSIVE SubSeqs(_)
\* the sub-sequences of a sequence, order kept
SubSeqs(q) ==
    IF q = << >> THEN { << >> }
    ELSE LET rest == SubSeqs(Tail(q))
         IN  rest \cup { <<Head(q)>> \o r : r \in rest }

\* parseMatterFeed / parseKarakeepFeed: the BookmarkItems of a response
ParseItems(s, listed) ==
    [i \in DOMAIN listed |->
        [guid |-> listed[i].guid, url |-> listed[i].url,
         canonicalUrl |-> NormalizeBookmarkUrl(listed[i].url),
         source |-> s, enc |-> listed[i].enc]]

IsGuidSeen_Never(s, g) == FALSE

IsGuidSeen(s, g) == <<s, g>> \in seenGuids

MarkGuidSeen_Forget(seen, s, g) == seen

\* markGuidSeen: SADD of the guid to the source's set; the set has no expiry
MarkGuidSeen(seen, s, g) == seen \cup {<<s, g>>}

IsUrlSeen_Never(u) == FALSE

IsUrlSeen(u) == NormalizeBookmarkUrl(u) \in seenUrls

IsVideoOnlyUrl_Never(u) == FALSE

\* isVideoOnlyUrl: hosts youtube.com, www.youtube.com, youtu.be, vimeo.com
IsVideoOnlyUrl(u) ==
    u \in {"https://www.youtube.com/watch?v=1", "https://youtube.com/watch?v=1"}

\* isApplePodcastsUrl
IsApplePodcastsUrl(u) == u = "https://podcasts.apple.com/us/podcast/x/id1?i=10"

\* the characters of a canonical URL, one per element
UrlChars(u) ==
    CASE u = "https://example.com/x" ->
            <<"h", "t", "t", "p", "s", ":", "/", "/", "e", "x", "a", "m", "p", "l", "e",
            ".", "c", "o", "m", "/", "x">>
      [] u = "https://youtube.com/watch?v=1" ->
            <<"h", "t", "t", "p", "s", ":", "/", "/", "y", "o", "u", "t", "u", "b", "e",
            ".", "c", "o", "m", "/", "w", "a", "t", "c", "h", "?", "v", "=",
            "1">>
      [] OTHER ->
            <<"h", "t", "t", "p", "s", ":", "/", "/", "p", "o", "d", "c", "a", "s", "t",
            "s", ".", "a", "p", "p", "l", "e", ".", "c", "o", "m", "/", "u",
            "s", "/", "p", "o", "d", "c", "a", "s", "t", "/", "x", "/", "i",
            "d", "1", "?", "i", "=", "1", "0">>

\* the characters the regular expression [^a-zA-Z0-9_-] leaves alone
AllowedIdChars ==
    {"a", "b", "c", "d", "e", "f", "g", "h", "i", "j", "k", "l", "m", "n", "o", "p",
     "q", "r", "s", "t", "u", "v", "w", "x", "y", "z", "A", "B", "C", "D", "E", "F",
     "G", "H", "I", "J", "K", "L", "M", "N", "O", "P", "Q", "R", "S", "T", "U", "V",
     "W", "X", "Y", "Z", "0", "1", "2", "3", "4", "5", "6", "7", "8", "9", "_", "-"}

\* sanitizeJobId(prefix, url): every character outside [a-zA-Z0-9_-] becomes "_",
\* and the result is `${prefix}-${sanitized}`
SanitizeJobId(prefix, url) ==
    <<prefix, "-">> \o [i \in DOMAIN url |-> IF url[i] \in AllowedIdChars THEN url[i] ELSE "_"]

PollIdle == [source |-> "none", pc |-> "idle", items |-> << >>, batch |-> << >>,
             seenAtStart |-> {}, skipped |-> {}]

NoPoll == [state |-> "none", attemptsMade |-> 0]

\* handler slots of the feed poll worker
PollSlots == 1..MaxPollSlots

\* slots whose handler is running
PollActive == {k \in PollSlots : poll[k].pc # "idle"}

PollSlotFree_Unlimited(active) == TRUE

\* the worker fetches another job only while fewer than `concurrency` handlers run
PollSlotFree(active) == Cardinality(active) < FeedPollConcurrency

FeedInit ==
    /\ seenGuids = {}
    /\ seenUrls = {}
    /\ fcache = [s \in Sources |-> "none"]
    /\ pj = [s \in Sources |-> NoPoll]
    /\ polls = 0
    /\ faults = 0
    /\ poll = [k \in PollSlots |-> PollIdle]
    /\ mjobs = << >>
    /\ convEnq = [c \in CanonicalUrls |-> 0]
    /\ podEnq = [c \in CanonicalUrls |-> 0]
    /\ mediaIds = {}

\* the job scheduler produces the next poll job of a source
Tick ==
    \E s \in Sources :
        /\ pj[s].state = "none"
        /\ polls < MaxPolls
        /\ pj' = [pj EXCEPT ![s] = [state |-> "waiting", attemptsMade |-> 0]]
        /\ polls' = polls + 1
        /\ UNCHANGED <<seenGuids, seenUrls, fcache, poll, mjobs, convEnq, podEnq, mediaIds, faults>>
        /\ UNCHANGED notFeed

\* feedPollWorker (concurrency 1) takes a poll job
PollStart ==
    \E s \in Sources : \E k \in PollSlots :
        /\ PollSlotFree(PollActive)
        /\ poll[k].pc = "idle"
        /\ \A j \in PollSlots : j < k => poll[j].pc # "idle"
        /\ pj[s].state = "waiting"
        /\ pj' = [pj EXCEPT ![s].state = "active"]
        /\ poll' = [poll EXCEPT ![k] =
                      [PollIdle EXCEPT !.source = s, !.pc = "fetch",
                          !.seenAtStart = {g \in {"g1", "g2", "g3"} : <<s, g>> \in seenGuids}]]
        /\ UNCHANGED <<seenGuids, seenUrls, fcache, polls, mjobs, convEnq, podEnq, mediaIds, faults>>
        /\ UNCHANGED notFeed

\* the poll handler of slot k returns
PollReturns(k) ==
    /\ pj' = [pj EXCEPT ![poll[k].source] = NoPoll]
    /\ poll' = [poll EXCEPT ![k] = PollIdle]

\* a poll handler raises: the job is retried while attemptsMade < attempts
PollThrows ==
    \E k \in PollSlots :
        /\ poll[k].pc # "idle"
        /\ faults < MaxFaults
        /\ faults' = faults + 1
        /\ LET made == pj[poll[k].source].attemptsMade + 1 IN
           pj' = [pj EXCEPT ![poll[k].source] =
                     IF made < FeedAttempts THEN [state |-> "delayed", attemptsMade |-> made]
                     ELSE NoPoll]
        /\ poll' = [poll EXCEPT ![k] = PollIdle]
        /\ UNCHANGED <<seenGuids, seenUrls, fcache, polls, mjobs, convEnq, podEnq, mediaIds>>
        /\ UNCHANGED notFeed

PollRetry ==
    \E s \in Sources :
        /\ pj[s].state = "delayed"
        /\ pj' = [pj EXCEPT ![s].state = "waiting"]
        /\ UNCHANGED <<seenGuids, seenUrls, fcache, polls, poll, mjobs, convEnq, podEnq, mediaIds, faults>>
        /\ UNCHANGED notFeed

NotModifiedCache_Reset(cache) == "stale"

\* parseMatterFeed on HTTP 304: items [], cache: cache || {}, wasModified false
NotModifiedCache(cache) == cache

\* "Update cache": the handler stores the etag the parser returned, when there is one
StoreCache(stored, returned) == IF returned # "none" THEN returned ELSE stored

\* where the item loop stands once the items are known
LoopPc(items) == IF items = << >> THEN "bulk" ELSE "guidCheck"

\* load the cache, fetch and parse the feed, store the new cache, return on "not modified".
\* Matter answers 304 or lists items; the Karakeep parser drops guids already seen and
\* reports "not modified" when nothing is left.
PollFetch ==
    \E k \in PollSlots :
        /\ poll[k].pc = "fetch"
        /\ \/ /\ poll[k].source = "matter"
              /\ fcache[poll[k].source] # "none"
              /\ poll' = [poll EXCEPT ![k].pc = "unchanged"]
              /\ fcache' = [fcache EXCEPT ![poll[k].source] = StoreCache(@, NotModifiedCache(@))]
              /\ UNCHANGED pj
           \/ \E listed \in SubSeqs(Catalog(poll[k].source)) :
                LET all == ParseItems(poll[k].source, listed)
                    items == IF poll[k].source = "karakeep"
                             THEN SelectSeq(all, LAMBDA it : ~IsGuidSeen(poll[k].source, it.guid))
                             ELSE all
                    modified == poll[k].source = "matter" \/ items # << >>
                IN  /\ fcache' = IF poll[k].source = "matter"
                                 THEN [fcache EXCEPT ![poll[k].source] = "etag"] ELSE fcache
                    /\ poll' = IF modified
                               THEN [poll EXCEPT ![k].items = items, ![k].pc = LoopPc(items)]
                               ELSE [poll EXCEPT ![k].pc = "unchanged"]
                    /\ UNCHANGED pj
        /\ UNCHANGED <<seenGuids, seenUrls, polls, mjobs, convEnq, podEnq, mediaIds, faults>>
        /\ UNCHANGED notFeed

\* `if (!result.wasModified)`: job.log("unchanged (304), skipping") and the return
\* with newItems: 0
PollUnchanged ==
    \E k \in PollSlots :
        /\ poll[k].pc = "unchanged"
        /\ PollReturns(k)
        /\ UNCHANGED <<seenGuids, seenUrls, fcache, polls, mjobs, convEnq, podEnq, mediaIds, faults>>
        /\ UNCHANGED notFeed

\* loop body: await isGuidSeen; a seen guid skips the item.  Then await markGuidSeen.
PollGuid ==
    \E k \in PollSlots :
        /\ \/ /\ poll[k].pc = "guidCheck"
              /\ LET it == Head(poll[k].items) IN
                 poll' = IF IsGuidSeen(poll[k].source, it.guid)
                         THEN [poll EXCEPT ![k].items = Tail(@),
                                           ![k].skipped = @ \cup {it.guid},
                                           ![k].pc = LoopPc(Tail(poll[k].items))]
                         ELSE [poll EXCEPT ![k].pc = "guidMark"]
              /\ UNCHANGED seenGuids
           \/ /\ poll[k].pc = "guidMark"
              /\ seenGuids' = MarkGuidSeen(seenGuids, poll[k].source, Head(poll[k].items).guid)
              /\ poll' = [poll EXCEPT ![k].pc = "urlCheck"]
        /\ UNCHANGED <<seenUrls, fcache, pj, polls, mjobs, convEnq, podEnq, mediaIds, faults>>
        /\ UNCHANGED notFeed

\* loop body: await isUrlSeen; a seen URL skips the item.  Then await markUrlSeen and
\* push the item on this run's batch.
PollUrl ==
    \E k \in PollSlots :
        /\ \/ /\ poll[k].pc = "urlCheck"
              /\ poll' = IF IsUrlSeen(Head(poll[k].items).url)
                         THEN [poll EXCEPT ![k].items = Tail(@),
                                           ![k].pc = LoopPc(Tail(poll[k].items))]
                         ELSE [poll EXCEPT ![k].pc = "urlMark"]
              /\ UNCHANGED seenUrls
           \/ /\ poll[k].pc = "urlMark"
              /\ seenUrls' = seenUrls \cup {NormalizeBookmarkUrl(Head(poll[k].items).url)}
              /\ poll' = [poll EXCEPT ![k].items = Tail(@),
                                      ![k].pc = LoopPc(Tail(poll[k].items)),
                                      ![k].batch = Append(@, Head(poll[k].items))]
        /\ UNCHANGED <<seenGuids, fcache, pj, polls, mjobs, convEnq, podEnq, mediaIds, faults>>
        /\ UNCHANGED notFeed

\* metadataQueue.addBulk(metadataJobs) when the batch is not empty
PollBulk ==
    \E k \in PollSlots :
        /\ poll[k].pc = "bulk"
        /\ mjobs' = mjobs \o [i \in DOMAIN poll[k].batch |->
                                [item |-> poll[k].batch[i], state |-> "waiting",
                                 attemptsMade |-> 0, pc |-> "idle"]]
        /\ poll' = [poll EXCEPT ![k].pc = "finish"]
        /\ UNCHANGED <<seenGuids, seenUrls, fcache, pj, polls, convEnq, podEnq, mediaIds, faults>>
        /\ UNCHANGED notFeed

\* job.log, the summary and the return value
PollFinish ==
    \E k \in PollSlots :
        /\ poll[k].pc = "finish"
        /\ PollReturns(k)
        /\ UNCHANGED <<seenGuids, seenUrls, fcache, polls, mjobs, convEnq, podEnq, mediaIds, faults>>
        /\ UNCHANGED notFeed

MActive == {i \in DOMAIN mjobs : mjobs[i].state = "active"}

\* metadataWorker (concurrency 2) takes a metadata job: job.log, extractUrlMetadata
\* (never raises), merge of the feed's and the page's metadata
MetaStart ==
    \E i \in DOMAIN mjobs :
        /\ mjobs[i].state = "waiting"
        /\ Cardinality(MActive) < MetadataConcurrency
        /\ mjobs' = [mjobs EXCEPT ![i].state = "active", ![i].pc = "media"]
        /\ UNCHANGED <<seenGuids, seenUrls, fcache, pj, polls, poll, convEnq, podEnq, mediaIds, faults>>
        /\ UNCHANGED notFeed

\* an item with an enclosure is added to the media queue under its sanitized job id
MetaMedia ==
    \E i \in DOMAIN mjobs :
        /\ mjobs[i].state = "active" /\ mjobs[i].pc = "media"
        /\ mediaIds' = IF mjobs[i].item.enc # "none"
                       THEN mediaIds \cup {SanitizeJobId("media", UrlChars(mjobs[i].item.canonicalUrl))}
                       ELSE mediaIds
        /\ mjobs' = IF mjobs[i].item.enc = "pdf"
                    THEN [mjobs EXCEPT ![i].state = "completed", ![i].pc = "idle",
                                       ![i].attemptsMade = @ + 1]
                    ELSE [mjobs EXCEPT ![i].pc = "route"]
        /\ UNCHANGED <<seenGuids, seenUrls, fcache, pj, polls, poll, convEnq, podEnq, faults>>
        /\ UNCHANGED notFeed

\* routing: podcast queue, video-only skip, or conversion queue
MetaRoute ==
    \E i \in DOMAIN mjobs :
        /\ mjobs[i].state = "active" /\ mjobs[i].pc = "route"
        /\ LET u == mjobs[i].item.url
               c == mjobs[i].item.canonicalUrl
           IN  IF IsApplePodcastsUrl(u)
               THEN podEnq' = [podEnq EXCEPT ![c] = @ + 1] /\ UNCHANGED convEnq
               ELSE IF IsVideoOnlyUrl(u)
               THEN UNCHANGED <<podEnq, convEnq>>
               ELSE convEnq' = [convEnq EXCEPT ![c] = @ + 1] /\ UNCHANGED podEnq
        /\ mjobs' = [mjobs EXCEPT ![i].pc = "log"]
        /\ UNCHANGED <<seenGuids, seenUrls, fcache, pj, polls, poll, mediaIds, faults>>
        /\ UNCHANGED notFeed

\* job.log after the add, then the handler returns
MetaReturn ==
    \E i \in DOMAIN mjobs :
        /\ mjobs[i].state = "active" /\ mjobs[i].pc = "log"
        /\ mjobs' = [mjobs EXCEPT ![i].state = "completed", ![i].pc = "idle",
                                  ![i].attemptsMade = @ + 1]
        /\ UNCHANGED <<seenGuids, seenUrls, fcache, pj, polls, poll, convEnq, podEnq, mediaIds, faults>>
        /\ UNCHANGED notFeed

\* an awaited call of the metadata handler rejects
MetaThrows ==
    \E i \in DOMAIN mjobs :
        /\ mjobs[i].state = "active"
        /\ faults < MaxFaults
        /\ faults' = faults + 1
        /\ LET made == mjobs[i].attemptsMade + 1 IN
           mjobs' = [mjobs EXCEPT ![i].attemptsMade = made, ![i].pc = "idle",
                                  ![i].state = IF made < MetadataAttempts
                                               THEN "delayed" ELSE "failed"]
        /\ UNCHANGED <<seenGuids, seenUrls, fcache, pj, polls, poll, convEnq, podEnq, mediaIds>>
        /\ UNCHANGED notFeed

MetaRetry ==
    \E i \in DOMAIN mjobs :
        /\ mjobs[i].state = "delayed"
        /\ mjobs' = [mjobs EXCEPT ![i].state = "waiting"]
        /\ UNCHANGED <<seenGuids, seenUrls, fcache, pj, polls, poll, convEnq, podEnq, mediaIds, faults>>
        /\ UNCHANGED notFeed

FeedNext ==
    \/ Tick \/ PollStart \/ PollThrows \/ PollRetry \/ PollFetch \/ PollGuid \/ PollUrl
    \/ PollBulk \/ PollFinish \/ PollUnchanged
    \/ MetaStart \/ MetaMedia \/ MetaRoute \/ MetaReturn \/ MetaThrows
    \/ MetaRetry


(***************************************************************************)
(* Properties of the feed poller                                           *)
(***************************************************************************)
MetaJobsFor(s, g, q) ==
    Cardinality({i \in DOMAIN q : q[i].item.source = s /\ q[i].item.guid = g})

MetaJobsForUrl(c) ==
    Cardinality({i \in DOMAIN mjobs : mjobs[i].item.canonicalUrl = c})

\* both feeds have listed a bookmark with canonical URL c and the poller has marked it
BothFeedsListed(c) ==
    \A s \in Sources :
        \E k \in DOMAIN Catalog(s) :
            /\ NormalizeBookmarkUrl(Catalog(s)[k].url) = c
            /\ <<s, Catalog(s)[k].guid>> \in seenGuids

FeedQuiescent ==
    /\ PollActive = {}
    /\ \A s \in Sources : pj[s].state = "none"
    /\ \A i \in DOMAIN mjobs : mjobs[i].state \in {"completed", "failed"}

\* C2: once a (source, guid) pair is marked as seen, later runs of that source's poll
\* handler enqueue no metadata job for that guid: every job a run adds carries a guid
\* that was not seen when the run started, and no (source, guid) pair ever has two jobs.
C2_SeenGuidNeverEnqueuedAgain ==
    [][ /\ \A i \in (DOMAIN mjobs') \ (DOMAIN mjobs) :
              \E k \in PollSlots :
                  /\ poll[k].pc = "bulk" /\ poll'[k].pc = "finish"
                  /\ mjobs'[i].item.source = poll[k].source
                  /\ mjobs'[i].item.guid \notin poll[k].seenAtStart
        /\ \A s \in Sources : \A g \in {"g1", "g2", "g3"} : MetaJobsFor(s, g, mjobs') <= 1
      ]_vars

\* a later run was handed a guid already seen, skipped it, and reached the end of its loop
C2_Witness ==
    \E k \in PollSlots :
        /\ poll[k].pc = "finish"
        /\ poll[k].skipped # {}
        /\ poll[k].skipped \subseteq poll[k].seenAtStart
        /\ \A g \in poll[k].skipped : MetaJobsFor(poll[k].source, g, mjobs) = 1

\* items with canonical URL c that some poll run has treated as new: pushed on a
\* running handler's batch not yet handed to addBulk, or enqueued as a metadata job
TreatedAsNewUrl(c) ==
    MetaJobsForUrl(c)
    + Cardinality({<<k, i>> \in PollSlots \X (1..3) :
                      /\ poll[k].pc # "finish"
                      /\ i \in DOMAIN poll[k].batch
                      /\ poll[k].batch[i].canonicalUrl = c})

\* the same, for the items of one source with one guid
TreatedAsNewGuid(s, g) ==
    MetaJobsFor(s, g, mjobs)
    + Cardinality({<<k, i>> \in PollSlots \X (1..3) :
                      /\ poll[k].pc # "finish"
                      /\ i \in DOMAIN poll[k].batch
                      /\ poll[k].batch[i].source = s /\ poll[k].batch[i].guid = g})

InHand(s, g) ==
    \E k \in PollSlots :
        /\ poll[k].pc \notin {"idle", "finish"}
        /\ poll[k].source = s
        /\ \/ \E i \in DOMAIN poll[k].batch : poll[k].batch[i].guid = g
           \/ /\ poll[k].pc \in {"urlCheck", "urlMark"}
              /\ Head(poll[k].items).guid = g

\* the guid is marked as seen, no metadata job carries it and no handler holds it
MarkedNotEnqueued(s, g) ==
    /\ <<s, g>> \in seenGuids
    /\ MetaJobsFor(s, g, mjobs) = 0
    /\ ~InHand(s, g)

\* C25: in a feed poll every new item's guid and URL are marked as seen before any
\* metadata job of that poll is enqueued; each item is enqueued at most once; and an
\* item that is marked but was not enqueued (its handler failed before the bulk add)
\* is not enqueued by the retry or by any later poll.
C25_MarkedBeforeEnqueueAndNeverRequeued ==
    [][ /\ \A i \in (DOMAIN mjobs') \ (DOMAIN mjobs) :
              /\ <<mjobs'[i].item.source, mjobs'[i].item.guid>> \in seenGuids
              /\ mjobs'[i].item.canonicalUrl \in seenUrls
        /\ \A s \in Sources : \A g \in {"g1", "g2", "g3"} :
              /\ MetaJobsFor(s, g, mjobs') <= 1
              /\ MarkedNotEnqueued(s, g) =>
                    /\ MetaJobsFor(s, g, mjobs') = 0
                    /\ ~InHand(s, g)'
      ]_vars

\* a poll handler failed after marking an item, and a later run of the same source's
\* handler has skipped that item and reached its end without a job for it
C25_Witness ==
    \E k \in PollSlots : \E g \in poll[k].skipped :
        /\ poll[k].pc = "finish"
        /\ faults > 0
        /\ g \in poll[k].seenAtStart
        /\ MetaJobsFor(poll[k].source, g, mjobs) = 0
        /\ \E i \in DOMAIN Catalog(poll[k].source) :
              /\ Catalog(poll[k].source)[i].guid = g
              /\ MetaJobsForUrl(NormalizeBookmarkUrl(Catalog(poll[k].source)[i].url)) = 0

\* C26: within a feed poll the conditional-request cache (etag / lastModified) is
\* persisted after the bulk enqueue, never before: the cache of a source changes only in
\* a step of a handler of that source that has already passed addBulk.
C26_CachePersistedAfterBulk ==
    [][ \A s \in Sources :
            fcache'[s] # fcache[s] =>
                \E k \in PollSlots : poll[k].source = s /\ poll[k].pc = "finish"
      ]_vars

\* C30: across all attempts of one metadata job (up to 3, with a failure possible at
\* any step of the handler) at most one conversion job and at most one podcast job are
\* enqueued for its item.
C30_AtMostOneDownstreamJob ==
    \A c \in CanonicalUrls : convEnq[c] <= 1 /\ podEnq[c] <= 1

\* the handler of slot k gets HTTP 304 from the Matter feed in this step
NotModifiedStep(k) ==
    /\ poll[k].pc = "fetch" /\ poll[k].source = "matter"
    /\ poll'[k].pc = "unchanged"

\* the handler of slot k returns after the 304
NotModifiedReturn(k) ==
    /\ poll[k].pc = "unchanged" /\ poll[k].source = "matter"
    /\ poll'[k].pc = "idle"
    /\ pj'[poll[k].source].state = "none"

\* C34: when the feed answers HTTP 304 the poll reports zero new items, marks
\* nothing as seen, enqueues no job and leaves the stored etag / lastModified as
\* they were.
C34_NotModifiedChangesNothing ==
    [][ \A k \in PollSlots : (NotModifiedStep(k) \/ NotModifiedReturn(k)) =>
            /\ Len(poll[k].batch) = 0 /\ Len(poll'[k].batch) = 0
            /\ seenGuids' = seenGuids /\ seenUrls' = seenUrls
            /\ mjobs' = mjobs
            /\ fcache' = fcache
      ]_vars

\* a Matter poll got 304 after an earlier poll had stored the etag and marked items
C34_Witness ==
    \E k \in PollSlots :
        /\ poll[k].pc = "unchanged" /\ poll[k].source = "matter"
        /\ fcache["matter"] = "etag"
        /\ \E g \in {"g1", "g2"} : <<"matter", g>> \in seenGuids

(***************************************************************************)
(* Process lifecycle: startup, browser singleton, capture contexts,        *)
(* signal handlers and shutdown                                            *)
(***************************************************************************)
Workers == {"conversion", "media", "podcast", "fix", "feedPoll", "metadata"}

\* workers constructed when their module is imported; they run from then on
ImportedWorkers == {"conversion", "feedPoll", "metadata"}

OtherWorkers == Workers \ {"conversion"}

\* the order in which the entry point's gracefulShutdown closes workers
ShutdownOrder == <<"fix", "podcast", "media", "feedPoll", "metadata">>

\* the steps of a conversion handler between browser.newContext and context.close
MidCapture == {"cookies", "body", "finally"}

Busy(w) == IF w = "conversion" THEN cap # "idle" ELSE busy[w]

\* Worker.close(): a running worker stops fetching jobs
BeginClose(ws, w) == IF ws[w] = "running" THEN [ws EXCEPT ![w] = "closing"] ELSE ws

\* Worker.close() resolves
EndClose(ws, w) == IF ws[w] = "closing" THEN [ws EXCEPT ![w] = "closed"] ELSE ws

ProcInit ==
    /\ main = "boot"
    /\ wstate = [w \in Workers |-> IF w \in ImportedWorkers THEN "running" ELSE "notStarted"]
    /\ busy = [w \in OtherWorkers |-> FALSE]
    /\ cap = "idle"
    /\ browserInstance = 0
    /\ launched = 0
    /\ openBrowsers = {}
    /\ ctxCreated = 0
    /\ openContexts = 0
    /\ workerHandlers = FALSE
    /\ indexHandlers = FALSE
    /\ isShuttingDownWorker = FALSE
    /\ isShuttingDownIndex = FALSE
    /\ wsd = "idle"
    /\ isd = 0
    /\ exited = FALSE

\* startServer, initializeFeedMonitor, then startWorker calls initBrowser, which
\* returns at once when browserInstance is set and starts a launch when it is null
MainStartWorker ==
    /\ ~exited
    /\ main = "boot"
    /\ main' = IF browserInstance # 0 THEN "health" ELSE "launching"
    /\ UNCHANGED <<wstate, busy, cap, browserInstance, launched, openBrowsers, ctxCreated,
                   openContexts, workerHandlers, indexHandlers, isShuttingDownWorker,
                   isShuttingDownIndex, wsd, isd, exited>>
    /\ UNCHANGED notProc

\* createStealthBrowser() resolves for startWorker's call: browserInstance is assigned
MainBrowserLaunched ==
    /\ ~exited
    /\ main = "launching"
    /\ launched' = launched + 1
    /\ browserInstance' = launched + 1
    /\ openBrowsers' = openBrowsers \cup {launched + 1}
    /\ main' = "health"
    /\ UNCHANGED <<wstate, busy, cap, ctxCreated, openContexts, workerHandlers,
                   indexHandlers, isShuttingDownWorker, isShuttingDownIndex, wsd, isd,
                   exited>>
    /\ UNCHANGED notProc

\* checkOllamaHealth, then process.on('SIGTERM' / 'SIGINT') in startWorker
MainRegisterWorkerHandlers ==
    /\ ~exited
    /\ main = "health"
    /\ workerHandlers' = TRUE
    /\ main' = "media"
    /\ UNCHANGED <<wstate, busy, cap, browserInstance, launched, openBrowsers, ctxCreated,
                   openContexts, indexHandlers, isShuttingDownWorker, isShuttingDownIndex,
                   wsd, isd, exited>>
    /\ UNCHANGED notProc

\* startMediaWorker / startPodcastWorker / startFixWorker (which does nothing when the
\* fix system is disabled or its CLI is missing)
MainStartOthers ==
    /\ ~exited
    /\ \/ main = "media" /\ main' = "podcast" /\ wstate' = [wstate EXCEPT !["media"] = "running"]
       \/ main = "podcast" /\ main' = "fix" /\ wstate' = [wstate EXCEPT !["podcast"] = "running"]
       \/ /\ main = "fix"
          /\ main' = "register"
          /\ \E enabled \in BOOLEAN :
                wstate' = IF enabled /\ ~isShuttingDownIndex
                          THEN [wstate EXCEPT !["fix"] = "running"] ELSE wstate
    /\ UNCHANGED <<busy, cap, browserInstance, launched, openBrowsers, ctxCreated,
                   openContexts, workerHandlers, indexHandlers, isShuttingDownWorker,
                   isShuttingDownIndex, wsd, isd, exited>>
    /\ UNCHANGED notProc

\* process.on('SIGTERM' / 'SIGINT') at the end of the entry point's startup
MainRegisterIndexHandlers ==
    /\ ~exited
    /\ main = "register"
    /\ indexHandlers' = TRUE
    /\ main' = "ready"
    /\ UNCHANGED <<wstate, busy, cap, browserInstance, launched, openBrowsers, ctxCreated,
                   openContexts, workerHandlers, isShuttingDownWorker, isShuttingDownIndex,
                   wsd, isd, exited>>
    /\ UNCHANGED notProc

\* a worker other than the conversion worker takes a job
Take ==
    \E w \in OtherWorkers :
        /\ ~exited
        /\ wstate[w] = "running"
        /\ ~busy[w]
        /\ busy' = [busy EXCEPT ![w] = TRUE]
        /\ UNCHANGED <<main, wstate, cap, browserInstance, launched, openBrowsers,
                       ctxCreated, openContexts, workerHandlers, indexHandlers,
                       isShuttingDownWorker, isShuttingDownIndex, wsd, isd, exited>>
        /\ UNCHANGED notProc

\* its handler returns or raises
Finish ==
    \E w \in OtherWorkers :
        /\ ~exited
        /\ busy[w]
        /\ busy' = [busy EXCEPT ![w] = FALSE]
        /\ UNCHANGED <<main, wstate, cap, browserInstance, launched, openBrowsers,
                       ctxCreated, openContexts, workerHandlers, indexHandlers,
                       isShuttingDownWorker, isShuttingDownIndex, wsd, isd, exited>>
        /\ UNCHANGED notProc

\* the conversion worker (concurrency 1) takes a job: processJob up to convertUrlToPDF
CapStart ==
    /\ ~exited
    /\ wstate["conversion"] = "running"
    /\ cap = "idle"
    /\ ctxCreated < MaxContexts
    /\ cap' = "init"
    /\ UNCHANGED <<main, wstate, busy, browserInstance, launched, openBrowsers, ctxCreated,
                   openContexts, workerHandlers, indexHandlers, isShuttingDownWorker,
                   isShuttingDownIndex, wsd, isd, exited>>
    /\ UNCHANGED notProc

\* convertUrlToPDF calls initBrowser
CapInitBrowser ==
    /\ ~exited
    /\ cap = "init"
    /\ cap' = IF browserInstance # 0 THEN "newContext" ELSE "launching"
    /\ UNCHANGED <<main, wstate, busy, browserInstance, launched, openBrowsers, ctxCreated,
                   openContexts, workerHandlers, indexHandlers, isShuttingDownWorker,
                   isShuttingDownIndex, wsd, isd, exited>>
    /\ UNCHANGED notProc

\* createStealthBrowser() resolves for the capture's call: browserInstance is assigned
CapBrowserLaunched ==
    /\ ~exited
    /\ cap = "launching"
    /\ launched' = launched + 1
    /\ browserInstance' = launched + 1
    /\ openBrowsers' = openBrowsers \cup {launched + 1}
    /\ cap' = "newContext"
    /\ UNCHANGED <<main, wstate, busy, ctxCreated, openContexts, workerHandlers,
                   indexHandlers, isShuttingDownWorker, isShuttingDownIndex, wsd, isd,
                   exited>>
    /\ UNCHANGED notProc

\* browser.newContext() resolves with a new context, or rejects and the handler fails
CapNewContext ==
    /\ ~exited
    /\ cap = "newContext"
    /\ \/ /\ ctxCreated' = ctxCreated + 1
          /\ openContexts' = openContexts + 1
          /\ cap' = "cookies"
       \/ /\ cap' = "idle"
          /\ UNCHANGED <<ctxCreated, openContexts>>
    /\ UNCHANGED <<main, wstate, busy, browserInstance, launched, openBrowsers,
                   workerHandlers, indexHandlers, isShuttingDownWorker,
                   isShuttingDownIndex, wsd, isd, exited>>
    /\ UNCHANGED notProc

\* loadCookies and context.addCookies, before the try block: a rejection leaves
\* convertUrlToPDF without reaching the finally clause
CapAddCookies ==
    /\ ~exited
    /\ cap = "cookies"
    /\ \E ok \in BOOLEAN : cap' = IF ok THEN "body" ELSE "idle"
    /\ UNCHANGED <<main, wstate, busy, browserInstance, launched, openBrowsers, ctxCreated,
                   openContexts, workerHandlers, indexHandlers, isShuttingDownWorker,
                   isShuttingDownIndex, wsd, isd, exited>>
    /\ UNCHANGED notProc

\* the try block: it returns a success, returns a failure result, or raises
CapBody ==
    /\ ~exited
    /\ cap = "body"
    /\ cap' = "finally"
    /\ UNCHANGED <<main, wstate, busy, browserInstance, launched, openBrowsers, ctxCreated,
                   openContexts, workerHandlers, indexHandlers, isShuttingDownWorker,
                   isShuttingDownIndex, wsd, isd, exited>>
    /\ UNCHANGED notProc

\* finally: context.close()
CapFinally ==
    /\ ~exited
    /\ cap = "finally"
    /\ openContexts' = openContexts - 1
    /\ cap' = "post"
    /\ UNCHANGED <<main, wstate, busy, browserInstance, launched, openBrowsers, ctxCreated,
                   workerHandlers, indexHandlers, isShuttingDownWorker,
                   isShuttingDownIndex, wsd, isd, exited>>
    /\ UNCHANGED notProc

\* the rest of processJob, until the handler returns or raises
CapHandlerDone ==
    /\ ~exited
    /\ cap = "post"
    /\ cap' = "idle"
    /\ UNCHANGED <<main, wstate, busy, browserInstance, launched, openBrowsers, ctxCreated,
                   openContexts, workerHandlers, indexHandlers, isShuttingDownWorker,
                   isShuttingDownIndex, wsd, isd, exited>>
    /\ UNCHANGED notProc

\* SIGTERM or SIGINT.  With no listener the process terminates.  Otherwise the
\* registered listeners run in registration order, each up to its first await:
\* the conversion worker's calls conversionWorker.close(), the entry point's
\* calls stopFixWorker().
Signal ==
    /\ ~exited
    /\ IF ~workerHandlers /\ ~indexHandlers
       THEN /\ exited' = TRUE
            /\ UNCHANGED <<wstate, isShuttingDownWorker, isShuttingDownIndex, wsd, isd>>
       ELSE /\ \/ workerHandlers /\ ~isShuttingDownWorker
               \/ indexHandlers /\ ~isShuttingDownIndex
            /\ LET w1 == workerHandlers /\ ~isShuttingDownWorker
                   w2 == indexHandlers /\ ~isShuttingDownIndex
                   ws1 == IF w1 THEN BeginClose(wstate, "conversion") ELSE wstate
               IN  /\ isShuttingDownWorker' = (isShuttingDownWorker \/ w1)
                   /\ isShuttingDownIndex' = (isShuttingDownIndex \/ w2)
                   /\ wsd' = IF w1 THEN "closeWorker" ELSE wsd
                   /\ isd' = IF w2 THEN 1 ELSE isd
                   /\ wstate' = IF w2 THEN BeginClose(ws1, ShutdownOrder[1]) ELSE ws1
            /\ UNCHANGED exited
    /\ UNCHANGED <<main, busy, cap, browserInstance, launched, openBrowsers, ctxCreated,
                   openContexts, workerHandlers, indexHandlers>>
    /\ UNCHANGED notProc

\* conversion worker's gracefulShutdown: conversionWorker.close() resolves once the
\* conversion handler in flight has finished
WorkerShutdownClosed ==
    /\ ~exited
    /\ wsd = "closeWorker"
    /\ ~Busy("conversion")
    /\ wstate' = EndClose(wstate, "conversion")
    /\ wsd' = "closeBrowser"
    /\ UNCHANGED <<main, busy, cap, browserInstance, launched, openBrowsers, ctxCreated,
                   openContexts, workerHandlers, indexHandlers, isShuttingDownWorker,
                   isShuttingDownIndex, isd, exited>>
    /\ UNCHANGED notProc

\* closeBrowser(): no-op when browserInstance is null, else close it and reset it
CloseBrowser ==
    /\ ~exited
    /\ wsd = "closeBrowser"
    /\ openBrowsers' = openBrowsers \ {browserInstance}
    /\ browserInstance' = 0
    /\ wsd' = "exit"
    /\ UNCHANGED <<main, wstate, busy, cap, launched, ctxCreated, openContexts,
                   workerHandlers, indexHandlers, isShuttingDownWorker,
                   isShuttingDownIndex, isd, exited>>
    /\ UNCHANGED notProc

\* process.exit(0) at the end of the conversion worker's gracefulShutdown
ProcessExit ==
    /\ ~exited
    /\ wsd = "exit"
    /\ exited' = TRUE
    /\ UNCHANGED <<main, wstate, busy, cap, browserInstance, launched, openBrowsers,
                   ctxCreated, openContexts, workerHandlers, indexHandlers,
                   isShuttingDownWorker, isShuttingDownIndex, wsd, isd>>
    /\ UNCHANGED notProc

\* entry point's gracefulShutdown: the close() it awaits resolves once that worker
\* has no handler in flight; the next worker's close() is then called
IndexShutdownStep ==
    /\ ~exited
    /\ isd \in DOMAIN ShutdownOrder
    /\ ~Busy(ShutdownOrder[isd])
    /\ LET ws1 == EndClose(wstate, ShutdownOrder[isd]) IN
       wstate' = IF isd + 1 \in DOMAIN ShutdownOrder
                 THEN BeginClose(ws1, ShutdownOrder[isd + 1]) ELSE ws1
    /\ isd' = isd + 1
    /\ UNCHANGED <<main, busy, cap, browserInstance, launched, openBrowsers, ctxCreated,
                   openContexts, workerHandlers, indexHandlers, isShuttingDownWorker,
                   isShuttingDownIndex, wsd, exited>>
    /\ UNCHANGED notProc

ProcNext ==
    \/ MainStartWorker \/ MainBrowserLaunched \/ MainRegisterWorkerHandlers
    \/ MainStartOthers \/ MainRegisterIndexHandlers
    \/ Take \/ Finish
    \/ CapStart \/ CapInitBrowser \/ CapBrowserLaunched \/ CapNewContext \/ CapAddCookies
    \/ CapBody \/ CapFinally \/ CapHandlerDone
    \/ Signal \/ WorkerShutdownClosed \/ CloseBrowser \/ ProcessExit \/ IndexShutdownStep

(***************************************************************************)
(* Properties of the process lifecycle                                     *)
(***************************************************************************)
\* C7: after SIGTERM or SIGINT has started both shutdown handlers, the process exits
\* only after every in-flight handler in every worker has run to completion.
C7_ExitAfterAllHandlers ==
    (exited /\ isShuttingDownWorker /\ isShuttingDownIndex) =>
        \A w \in Workers : ~Busy(w)

\* C8: during a shutdown in which both handlers run, the browser is closed only when
\* the conversion worker has no handler mid-capture and every other worker has been
\* closed, and no capture starts once closeBrowser has run.
C8_BrowserClosedLast ==
    [][ /\ (isShuttingDownIndex /\ wsd = "closeBrowser" /\ wsd' = "exit") =>
              /\ cap \notin MidCapture
              /\ \A w \in OtherWorkers : wstate[w] \in {"closed", "notStarted"}
        /\ (wsd = "exit") => ~(cap = "idle" /\ cap' = "init")
      ]_vars

\* C9: at most one browser instance exists at any time: however the calls of
\* initBrowser overlap, one browser is launched.
C9_AtMostOneBrowser ==
    /\ Cardinality(openBrowsers) <= 1
    /\ (wsd \notin {"exit"}) => launched <= 1

\* C10: whenever the conversion handler is outside convertUrlToPDF, every context a
\* capture created has been closed.
C10_NoContextLeftOpen ==
    (cap \in {"idle", "init", "launching", "newContext", "post"}) => openContexts = 0

(***************************************************************************)
(* HTTP routes: submit, delete, rerun                                      *)
(***************************************************************************)
\* Strings whose characters matter are sequences of one-character strings; a path
\* is a sequence of segments.
DotPdf == <<".", "p", "d", "f">>

DotDot == <<".", ".">>

\* path.resolve(env.DATA_DIR): the data directory /d
DataDir == << <<"d">> >>

\* media/{weekId}/pdfs below the data directory
PdfDirOf(week) == DataDir \o << <<"m">>, week, <<"p">> >>

Week4 == <<"w", "4">>

FileA == <<"a">> \o DotPdf

FileB == <<"b">> \o DotPdf

FileC == <<"c">> \o DotPdf

\* the files on disk: three PDFs of one week, a note, and two files outside the data
\* directory, one of them in the sibling directory /d2
DiskPaths == {PdfDirOf(Week4) \o <<FileA>>, PdfDirOf(Week4) \o <<FileB>>,
              PdfDirOf(Week4) \o <<FileC>>, DataDir \o << <<"n">> >>,
              << <<"d", "2">>, FileA >>, << <<"e">>, FileA >>}

NoFile == [exists |-> FALSE, subject |-> "none"]

\* the Subject metadata of each file on disk
SubjectOf(path) ==
    CASE path = PdfDirOf(Week4) \o <<FileA>> -> "https://example.com/x"
      [] path = PdfDirOf(Week4) \o <<FileB>> -> "https://podcasts.apple.com/us/podcast/x/id1?i=10"
      [] path = << <<"d", "2">>, FileA >> -> "https://example.com/sibling"
      [] path = << <<"e">>, FileA >> -> "https://example.com/outside"
      [] OTHER -> "none"

\* file paths a request body can carry: relative or absolute, with ".." segments
RequestPaths ==
    {[abs |-> FALSE, segs |-> << <<"m">>, Week4, <<"p">>, FileA >>],
     [abs |-> FALSE, segs |-> << <<"m">>, Week4, <<"p">>, FileB >>],
     [abs |-> FALSE, segs |-> << <<"m">>, Week4, <<"p">>, FileC >>],
     [abs |-> FALSE, segs |-> << <<"n">> >>],
     [abs |-> FALSE, segs |-> << DotDot, <<"d", "2">>, FileA >>],
     [abs |-> FALSE, segs |-> << DotDot, <<"e">>, FileA >>],
     [abs |-> TRUE, segs |-> << <<"e">>, FileA >>],
     [abs |-> TRUE, segs |-> << <<"d">>, <<"m">>, Week4, <<"p">>, FileA >>]}

RECURSIVE Normalize(_, _)
\* path.resolve's normalisation: ".." removes the segment before it, "." is dropped
Normalize(done, rest) ==
    IF rest = << >> THEN done
    ELSE IF Head(rest) = DotDot
         THEN Normalize(IF done = << >> THEN done ELSE SubSeq(done, 1, Len(done) - 1),
                        Tail(rest))
    ELSE IF Head(rest) = <<".">> THEN Normalize(done, Tail(rest))
    ELSE Normalize(Append(done, Head(rest)), Tail(rest))

\* path.resolve(dataDir, filePath): an absolute filePath replaces dataDir
PathResolve(base, fp) ==
    Normalize(<< >>, IF fp.abs THEN fp.segs ELSE base \o fp.segs)

RECURSIVE PathString(_)
\* the resolved path as a string: "/" before every segment
PathString(segs) ==
    IF segs = << >> THEN << >> ELSE <<"/">> \o Head(segs) \o PathString(Tail(segs))

\* String.prototype.startsWith
StartsWith(str, prefix) ==
    Len(str) >= Len(prefix) /\ SubSeq(str, 1, Len(prefix)) = prefix

\* String.prototype.endsWith
EndsWith(str, suffix) ==
    Len(str) >= Len(suffix) /\ SubSeq(str, Len(str) - Len(suffix) + 1, Len(str)) = suffix

\* the request path as written ends with ".pdf"
NamesPdf(fp) == fp.segs # << >> /\ EndsWith(fp.segs[Len(fp.segs)], DotPdf)

\* the routes' containment test: fullPath.startsWith(dataDir)
PathInsideDataDir(full) == StartsWith(PathString(full), PathString(DataDir))

\* a path lies inside the data directory: it is the directory or below it
LiesInside(full) ==
    Len(full) >= Len(DataDir) /\ SubSeq(full, 1, Len(DataDir)) = DataDir

\* URLs a request can carry
ApiUrls == {"https://example.com/x", "https://m.youtube.com/watch?v=1", "https://vimeo.com/1",
            "https://podcasts.apple.com/us/podcast/x/id1?i=10", "not a url", ""}

\* new URL(url): it throws for text that is not a URL
IsValidUrl(u) == u \notin {"not a url", "", "none"}

\* new URL(url).hostname.toLowerCase()
Hostname(u) ==
    CASE u = "https://m.youtube.com/watch?v=1" -> "m.youtube.com"
      [] u = "https://vimeo.com/1" -> "vimeo.com"
      [] u = "https://podcasts.apple.com/us/podcast/x/id1?i=10" -> "podcasts.apple.com"
      [] u = "https://www.youtube.com/watch?v=1" -> "www.youtube.com"
      [] u = "https://youtube.com/watch?v=1" -> "youtube.com"
      [] u = "https://www.example.com/x?utm_source=rss" -> "www.example.com"
      [] u \in {"https://e.co/a/b", "https://e.co/a?b"} -> "e.co"
      [] OTHER -> "example.com"

VideoOnlyHosts == {"youtube.com", "www.youtube.com", "youtu.be", "m.youtube.com",
                   "vimeo.com", "www.vimeo.com"}

JobsIsVideoOnlyUrl_Never(u) == FALSE

\* isVideoOnlyUrl of the jobs route
JobsIsVideoOnlyUrl(u) == IsValidUrl(u) /\ Hostname(u) \in VideoOnlyHosts

\* subject.startsWith('http://') || subject.startsWith('https://')
LooksLikeUrl(u) == u \notin {"none", "not a url", ""}

\* no file path
NoFilePath == << >>

\* the job data the routes hand to conversionQueue.add, which has no oldFilePath field;
\* recoveredFrom records the PDF whose Subject gave the URL, route the submitting route
ApiConversionJob(u, route) ==
    [url |-> u.url, originalUrl |-> u.url, oldFilePath |-> NoFilePath,
     recoveredFrom |-> u.from, route |-> route]

\* a URL given in the request, not recovered from a file
Direct(u) == [url |-> u, from |-> NoFilePath]

\* the job data the routes hand to podcastQueue.add
ApiPodcastJob(u, route) == [url |-> u.url, originalUrl |-> u.url, route |-> route]

RECURSIVE DeleteLoop(_, _, _, _)
\* the loop of POST /delete over the request's files: the disk, the accesses made and
\* the number of files deleted
DeleteLoop(files, disk, acc, deleted) ==
    IF files = << >> THEN [disk |-> disk, acc |-> acc, deleted |-> deleted]
    ELSE LET full == PathResolve(DataDir, Head(files)) IN
         IF ~PathInsideDataDir(full)
         THEN DeleteLoop(Tail(files), disk, acc, deleted)
         ELSE IF full \in DOMAIN disk /\ disk[full].exists
         THEN DeleteLoop(Tail(files), [disk EXCEPT ![full] = NoFile],
                         acc \cup {[path |-> full, op |-> "unlink"]}, deleted + 1)
         ELSE DeleteLoop(Tail(files), disk,
                         acc \cup {[path |-> full, op |-> "unlink"]}, deleted)

\* extractUrlFromPdf: the Subject of the file when it can be read and looks like a URL
ExtractUrlFromPdf(disk, full) ==
    IF full \in DOMAIN disk /\ disk[full].exists /\ LooksLikeUrl(disk[full].subject)
    THEN disk[full].subject ELSE "none"

RECURSIVE SelectedLoop(_, _, _, _)
\* the loop of POST /rerun-selected over the request's files: the URLs recovered and
\* the accesses made
SelectedLoop(files, disk, urls, acc) ==
    IF files = << >> THEN [urls |-> urls, acc |-> acc]
    ELSE LET full == PathResolve(DataDir, Head(files)) IN
         IF ~NamesPdf(Head(files)) \/ ~PathInsideDataDir(full)
         THEN SelectedLoop(Tail(files), disk, urls, acc)
         ELSE LET u == ExtractUrlFromPdf(disk, full) IN
              SelectedLoop(Tail(files), disk,
                           IF u # "none" THEN Append(urls, [url |-> u, from |-> full])
                           ELSE urls,
                           acc \cup {[path |-> full, op |-> "read"]})

RECURSIVE SubmitLoop(_, _, _, _)
\* the submit loop of both rerun routes: podcast URLs go to the podcast queue, all
\* others to the conversion queue
SubmitLoop(urls, conv, pod, route) ==
    IF urls = << >> THEN [conv |-> conv, pod |-> pod]
    ELSE IF IsApplePodcastsUrl(Head(urls).url)
         THEN SubmitLoop(Tail(urls), conv, Append(pod, ApiPodcastJob(Head(urls), route)), route)
         ELSE SubmitLoop(Tail(urls), Append(conv, ApiConversionJob(Head(urls), route)), pod, route)

\* request bodies: up to two file paths
FileLists == { << >> } \cup {<<f>> : f \in RequestPaths}
             \cup {<<f, g>> : f \in RequestPaths, g \in RequestPaths}

\* POST /delete
DeleteFiles ==
    \E files \in FileLists :
        /\ requests < MaxRequests
        /\ requests' = requests + 1
        /\ IF files = << >>
           THEN /\ resp' = [route |-> "delete", status |-> 400]
                /\ UNCHANGED <<adisk, touched>>
           ELSE LET r == DeleteLoop(files, adisk, {}, 0) IN
                /\ adisk' = r.disk
                /\ touched' = touched \cup r.acc
                /\ resp' = [route |-> "delete", status |-> 200]
        /\ UNCHANGED <<aconv, apod>>
        /\ UNCHANGED notApi

\* POST /rerun-selected
RerunSelected ==
    \E files \in FileLists : \E urls \in {<< >>, <<"https://example.com/x">>, <<"not a url">>} :
        /\ requests < MaxRequests
        /\ requests' = requests + 1
        /\ IF files = << >> /\ urls = << >>
           THEN /\ resp' = [route |-> "rerunSelected", status |-> 400]
                /\ UNCHANGED <<touched, aconv, apod>>
           ELSE LET r == SelectedLoop(files, adisk, << >>, {})
                    direct == SelectSeq(urls, LooksLikeUrl)
                    all == r.urls \o [i \in DOMAIN direct |-> Direct(direct[i])]
                    q == SubmitLoop(all, aconv, apod, "rerunSelected")
                IN  /\ touched' = touched \cup r.acc
                    /\ aconv' = q.conv
                    /\ apod' = q.pod
                    /\ resp' = [route |-> "rerunSelected", status |-> 200]
        /\ UNCHANGED adisk
        /\ UNCHANGED notApi

WeekIds == {"2026-W04", "2026-W05", "W4"}

\* isValidWeekId: /^\d{4}-W\d{2}$/
IsValidWeekId(w) == w \in {"2026-W04", "2026-W05"}

\* the week's directory name
WeekSegment(w) == IF w = "2026-W04" THEN Week4 ELSE <<"w", "5">>

\* readdir(pdfDir) filtered by file.endsWith('.pdf'): the PDFs of a week
WeekPdfs(disk, w) ==
    LET dir == PdfDirOf(WeekSegment(w)) IN
    {f \in DOMAIN disk :
        /\ disk[f].exists
        /\ Len(f) = Len(dir) + 1
        /\ SubSeq(f, 1, Len(dir)) = dir
        /\ EndsWith(f[Len(f)], DotPdf)}

RECURSIVE SetToSeq(_)
\* Array.from(set)
SetToSeq(S) ==
    IF S = {} THEN << >>
    ELSE LET x == CHOOSE y \in S : TRUE IN <<x>> \o SetToSeq(S \ {x})

\* POST /weeks/:weekId/rerun: URLs of the week's completed and failed jobs and of the
\* week's PDFs, each submitted once
RerunWeek ==
    \E w \in WeekIds : \E queued \in SUBSET {"https://example.com/x", "https://example.com/q"} :
    \E discordOk \in BOOLEAN :
        /\ requests < MaxRequests
        /\ requests' = requests + 1
        /\ IF ~IsValidWeekId(w)
           THEN /\ resp' = [route |-> "rerunWeek", status |-> 400]
                /\ UNCHANGED <<touched, aconv, apod>>
           ELSE LET pdfs == WeekPdfs(adisk, w)
                    found == {ExtractUrlFromPdf(adisk, f) : f \in pdfs} \ {"none"}
                    origin(u) == IF u \in found
                                 THEN CHOOSE f \in pdfs : ExtractUrlFromPdf(adisk, f) = u
                                 ELSE NoFilePath
                    all == {[url |-> u, from |-> origin(u)] : u \in queued \cup found}
                    q == SubmitLoop(SetToSeq(all), aconv, apod, "rerunWeek")
                IN  /\ touched' = touched \cup {[path |-> f, op |-> "read"] : f \in pdfs}
                    /\ aconv' = q.conv
                    /\ apod' = q.pod
                    /\ resp' = [route |-> "rerunWeek",
                                status |-> IF discordOk THEN 200 ELSE 500]
        /\ UNCHANGED adisk
        /\ UNCHANGED notApi

\* POST / of the jobs route
SubmitConversion ==
    \E u \in ApiUrls :
        /\ requests < MaxRequests
        /\ requests' = requests + 1
        /\ IF u = "" \/ ~IsValidUrl(u)
           THEN /\ resp' = [route |-> "submit", status |-> 400, url |-> u]
                /\ UNCHANGED <<aconv, apod>>
           ELSE IF IsApplePodcastsUrl(u)
           THEN /\ apod' = Append(apod, ApiPodcastJob(Direct(u), "submit"))
                /\ resp' = [route |-> "submit", status |-> 202, url |-> u]
                /\ UNCHANGED aconv
           ELSE IF JobsIsVideoOnlyUrl(u)
           THEN /\ resp' = [route |-> "submit", status |-> 400, url |-> u]
                /\ UNCHANGED <<aconv, apod>>
           ELSE /\ aconv' = Append(aconv, ApiConversionJob(Direct(u), "submit"))
                /\ resp' = [route |-> "submit", status |-> 202, url |-> u]
                /\ UNCHANGED apod
        /\ UNCHANGED <<adisk, touched>>
        /\ UNCHANGED notApi

ApiNext == DeleteFiles \/ RerunSelected \/ RerunWeek \/ SubmitConversion

ApiInit ==
    /\ adisk = [f \in DiskPaths |-> [exists |-> TRUE, subject |-> SubjectOf(f)]]
    /\ touched = {}
    /\ aconv = << >>
    /\ apod = << >>
    /\ resp = [route |-> "none", status |-> 0]
    /\ requests = 0

(***************************************************************************)
(* Properties of the HTTP routes                                           *)
(***************************************************************************)
\* C12: a file is unlinked or read by deleteFiles or rerunSelected only if its resolved
\* path lies inside the data directory.
C12_OnlyInsideDataDirTouched ==
    \A t \in touched : LiesInside(t.path)

\* C14: every conversion job that rerunWeek or rerunSelected submits for a URL
\* recovered from a PDF's Subject carries that PDF's file path as oldFilePath.
C14_RerunCarriesOldFilePath ==
    \A i \in DOMAIN aconv :
        (aconv[i].route \in {"rerunWeek", "rerunSelected"}
         /\ aconv[i].recoveredFrom # NoFilePath) =>
            aconv[i].oldFilePath = aconv[i].recoveredFrom

\* C20: submitConversion for a URL on a video-only host answers with an error and
\* enqueues nothing, and for a podcast URL enqueues a podcast job and no conversion job.
C20_SubmitRouting ==
    [][ (resp'.route = "submit" /\ requests' = requests + 1) =>
          /\ (IsValidUrl(resp'.url) /\ Hostname(resp'.url) \in VideoOnlyHosts) =>
                (resp'.status = 400 /\ aconv' = aconv /\ apod' = apod)
          /\ IsApplePodcastsUrl(resp'.url) =>
                /\ apod' = Append(apod, ApiPodcastJob(Direct(resp'.url), "submit"))
                /\ aconv' = aconv
      ]_vars

\* a video URL and a podcast URL have both been submitted
C20_Witness ==
    /\ requests = 2
    /\ resp.route = "submit"
    /\ Hostname(resp.url) = "vimeo.com"
    /\ resp.status = 400
    /\ Len(apod) = 1 /\ apod[1].route = "submit"
    /\ aconv = << >>

(***************************************************************************)
(* Media collection queue, worker and downloadMedia                        *)
(***************************************************************************)
MediaJobIds == 1..MaxMediaJobs

\* Days count from Monday 2026-01-19, the first day of ISO week 4 of 2026.
FirstDay == 6
Days == 0..LastDay

\* new Date(bookmarkedAt): the calendar date of a day of that range
DateOfDay(day) == [y |-> 2026, m |-> 1, d |-> 19 + day]

IsLeapYear(y) == (y % 4 = 0 /\ y % 100 # 0) \/ y % 400 = 0

DaysInMonth(y, m) ==
    CASE m \in {4, 6, 9, 11} -> 30
      [] m = 2 -> IF IsLeapYear(y) THEN 29 ELSE 28
      [] OTHER -> 31

LeapYearsBefore(y) == ((y - 1) \div 4) - ((y - 1) \div 100) + ((y - 1) \div 400)

\* Date.UTC(y, 0, 1) / 86400000: days from 1970-01-01 to January 1 of y
YearStart(y) == 365 * (y - 1970) + LeapYearsBefore(y) - LeapYearsBefore(1970)

RECURSIVE DaysBeforeMonth(_, _)
DaysBeforeMonth(y, m) == IF m = 1 THEN 0 ELSE DaysBeforeMonth(y, m - 1) + DaysInMonth(y, m - 1)

\* Date.UTC(date.getFullYear(), date.getMonth(), date.getDate()) / 86400000
EpochDay(date) == YearStart(date.y) + DaysBeforeMonth(date.y, date.m) + date.d - 1

\* getUTCDay(): 0 is Sunday; 1970-01-01 was a Thursday
UTCDay(n) == (n + 4) % 7

\* getUTCFullYear() of a day close to year y
UTCFullYear(n, y) == CHOOSE yy \in {y - 1, y, y + 1} : YearStart(yy) <= n /\ n < YearStart(yy + 1)

IsoDayNum_SundayZero(utcDay) == utcDay

\* d.getUTCDay() || 7: Sunday (0) becomes 7
IsoDayNum(utcDay) == IF utcDay = 0 THEN 7 ELSE utcDay

\* getISOWeekNumber: move to the Thursday of the date's week, then count the weeks
\* from January 1 of the Thursday's year
GetISOWeekNumber(date) ==
    LET n == EpochDay(date)
        thursday == n + 4 - IsoDayNum(UTCDay(n))
        year == UTCFullYear(thursday, date.y)
        \* Math.ceil(((d - yearStart) / 86400000 + 1) / 7)
        weekNum == (thursday - YearStart(year) + 1 + 6) \div 7
    IN  [year |-> year, week |-> weekNum]

\* week.toString().padStart(2, '0')
PadStart2(n) == IF n < 10 THEN "0" \o ToString(n) ELSE ToString(n)

\* getWeeklyBinPath: {DATA_DIR}/media/{year}-W{week}/{mediaType}s
GetWeeklyBinPath(bookmarkedAt, mediaType) ==
    LET w == GetISOWeekNumber(DateOfDay(bookmarkedAt))
    IN  "data/media/" \o ToString(w.year) \o "-W" \o PadStart2(w.week)
            \o "/" \o mediaType \o "s"

\* sanitize-filename drops the characters a file name cannot hold
SanitizeFilename(name) == CASE name = "a/b" -> "ab" [] OTHER -> name

\* extension from the enclosure's MIME type
MediaExtension(type) ==
    CASE type = "video/mp4" -> ".mp4"
      [] type = "video/webm" -> ".webm"
      [] type = "application/pdf" -> ".pdf"
      [] OTHER -> ".mp4"

\* getMediaFilename: the metadata worker always supplies a title
GetMediaFilename(item) == SanitizeFilename(item.title) \o MediaExtension(item.enclosureType)

\* items as the metadata worker enqueues them: title and bookmarkedAt are always set
\* (title defaults to 'Untitled', bookmarkedAt to the time of extraction)
\* two bookmarks of the same week with different URLs whose titles give the same
\* file name
MediaItems ==
    { [canonicalUrl |-> "https://example.com/t", mediaType |-> "transcript",
       enclosureType |-> "application/pdf", title |-> "a/b", bookmarkedAt |-> 6],
      [canonicalUrl |-> "https://example.com/u", mediaType |-> "transcript",
       enclosureType |-> "application/pdf", title |-> "ab", bookmarkedAt |-> 6] }

NoItem == [canonicalUrl |-> "", mediaType |-> "", enclosureType |-> "", title |-> "",
           bookmarkedAt |-> 0 - 1]

NoDate == 0 - 1

BinDate_Now(item, now) == now

\* item.bookmarkedAt || new Date().toISOString()
BinDate(item, now) == IF item.bookmarkedAt # NoDate THEN item.bookmarkedAt ELSE now

\* path.join(binPath, filename) as downloadMedia computes it at time `now`
MediaDest(item, now) ==
    GetWeeklyBinPath(BinDate(item, now), item.mediaType) \o "/" \o GetMediaFilename(item)

MediaPaths ==
    { GetWeeklyBinPath(d, item.mediaType) \o "/" \o GetMediaFilename(item) :
        item \in MediaItems, d \in Days }

NoSize == 0 - 1

\* sizes of a file at a destination: empty, cut short, or the whole enclosure
PartialSize == 1
CompleteSize == 2
FileSizes == {0, CompleteSize}

NoMediaJob == [state |-> "none", attemptsMade |-> 0, item |-> NoItem, pc |-> "idle",
               dest |-> "", delay |-> 0, lastReason |-> "none", filePath |-> "",
               fetched |-> FALSE]

MediaWillRetry_Never(made) == FALSE

\* BullMQ retries a job whose handler raised while attemptsMade < attempts
MediaWillRetry(made) == made < MediaAttempts

RECURSIVE Pow2(_)
Pow2(n) == IF n = 0 THEN 1 ELSE 2 * Pow2(n - 1)

\* backoff { type: 'exponential', delay }: delay * 2^(attemptsMade - 1)
ExponentialBackoff(made) == MediaBackoffDelay * Pow2(made - 1)

MediaActive == {j \in MediaJobIds : mq[j].state = "active"}

MediaInit ==
    /\ mq = [j \in MediaJobIds |-> NoMediaJob]
    /\ mdisk = [p \in MediaPaths |-> NoSize]
    /\ today = FirstDay
    /\ usedPaths = [item \in MediaItems |-> {}]

\* an earlier run of the process (possibly killed mid-download) left a file behind
EarlierRun ==
    /\ \A j \in MediaJobIds : mq[j].state = "none"
    /\ \E item \in MediaItems, size \in FileSizes :
         LET p == MediaDest(item, today) IN
           /\ mdisk[p] = NoSize
           /\ mdisk' = [mdisk EXCEPT ![p] = size]
    /\ UNCHANGED <<mq, today, usedPaths>>
    /\ UNCHANGED notMedia

ClockAdvance ==
    /\ today < LastDay
    /\ today' = today + 1
    /\ UNCHANGED <<mq, mdisk, usedPaths>>
    /\ UNCHANGED notMedia

\* mediaCollectionQueue.add with jobId sanitizeJobId('media', canonicalUrl): ignored
\* while a job with that id is still in the queue
MediaAdd ==
    \E j \in MediaJobIds, item \in MediaItems :
        /\ mq[j].state = "none"
        /\ \A k \in MediaJobIds : k < j => mq[k].state # "none"
        /\ \A k \in MediaJobIds :
              mq[k].state \notin {"none", "removed"} =>
                  mq[k].item.canonicalUrl # item.canonicalUrl
        /\ mq' = [mq EXCEPT ![j] = [NoMediaJob EXCEPT !.state = "waiting", !.item = item]]
        /\ UNCHANGED <<mdisk, today, usedPaths>>
        /\ UNCHANGED notMedia

\* removeOnComplete { count: 500 }: old completed jobs are trimmed
MediaTrim ==
    \E j \in MediaJobIds :
        /\ mq[j].state = "completed"
        /\ mq' = [mq EXCEPT ![j].state = "removed"]
        /\ UNCHANGED <<mdisk, today, usedPaths>>
        /\ UNCHANGED notMedia

\* the handler raised: BullMQ counts the attempt and delays or fails the job
MediaThrows(j, reason) ==
    LET made == mq[j].attemptsMade + 1 IN
    mq' = [mq EXCEPT ![j].attemptsMade = made,
                     ![j].state = IF MediaWillRetry(made) THEN "delayed" ELSE "failed",
                     ![j].delay = IF MediaWillRetry(made) THEN ExponentialBackoff(made) ELSE 0,
                     ![j].lastReason = reason,
                     ![j].pc = "idle"]

\* the handler returned the success result
MediaReturns(j, path, fetched) ==
    mq' = [mq EXCEPT ![j].attemptsMade = @ + 1, ![j].state = "completed",
                     ![j].filePath = path, ![j].fetched = fetched, ![j].pc = "idle"]

\* the worker (concurrency 2) takes a waiting job; downloadMedia up to the request:
\* destination path, mkdir, and the check for an existing file
MediaBegin ==
    \E j \in MediaJobIds :
        /\ mq[j].state = "waiting"
        /\ Cardinality(MediaActive) < MediaConcurrency
        /\ LET item == mq[j].item
               dest == MediaDest(item, today)
           IN  /\ usedPaths' = [usedPaths EXCEPT ![item] = @ \cup {dest}]
               /\ \/ /\ mdisk[dest] = NoSize
                     /\ mdisk' = mdisk
                     /\ \/ MediaThrows(j, "download_failed")
                        \/ mq' = [mq EXCEPT ![j].state = "active", ![j].pc = "fetching",
                                            ![j].dest = dest]
                  \/ /\ mdisk[dest] > 0
                     /\ mdisk' = mdisk
                     /\ MediaReturns(j, dest, FALSE)
                  \/ /\ mdisk[dest] = 0
                     /\ mdisk' = [mdisk EXCEPT ![dest] = NoSize]
                     /\ mq' = [mq EXCEPT ![j].state = "active", ![j].pc = "fetching",
                                         ![j].dest = dest]
        /\ UNCHANGED today
        /\ UNCHANGED notMedia

\* the catch block of downloadMedia: unlink what is at the destination, ignoring
\* a failing unlink
MediaCleanup(dest, cleaned) ==
    IF mdisk[dest] # NoSize /\ cleaned THEN [mdisk EXCEPT ![dest] = NoSize] ELSE mdisk

\* the request, the stream to the file and the verification of the result
MediaFetch ==
    \E j \in MediaJobIds :
        /\ mq[j].state = "active" /\ mq[j].pc = "fetching"
        /\ LET dest == mq[j].dest IN
           \/ /\ mdisk' = [mdisk EXCEPT ![dest] = CompleteSize]
              /\ MediaReturns(j, dest, TRUE)
           \/ /\ mdisk' = [mdisk EXCEPT ![dest] = NoSize]
              /\ MediaThrows(j, "download_failed")
           \/ \E reason \in {"download_failed", "timeout"}, partial, cleaned \in BOOLEAN :
                /\ mdisk' = IF partial /\ ~cleaned THEN [mdisk EXCEPT ![dest] = PartialSize]
                            ELSE MediaCleanup(dest, cleaned)
                /\ MediaThrows(j, reason)
           \/ /\ mdisk' = [mdisk EXCEPT ![dest] = NoSize]
              /\ MediaThrows(j, "file_missing")
        /\ UNCHANGED <<today, usedPaths>>
        /\ UNCHANGED notMedia

\* the process is killed while pipeline(response, fileStream) writes to the
\* destination: what was written so far stays there, and BullMQ's stalled-job check
\* puts the job back in the wait list
MediaCrash ==
    \E j \in MediaJobIds :
        /\ mq[j].state = "active" /\ mq[j].pc = "fetching"
        /\ mdisk[mq[j].dest] = NoSize
        /\ \E written \in {0, PartialSize} :
              mdisk' = [mdisk EXCEPT ![mq[j].dest] = written]
        /\ mq' = [k \in MediaJobIds |->
                    IF mq[k].state = "active"
                    THEN [mq[k] EXCEPT !.state = "waiting", !.pc = "idle", !.dest = ""]
                    ELSE mq[k]]
        /\ UNCHANGED <<today, usedPaths>>
        /\ UNCHANGED notMedia

\* the backoff delay has passed
MediaRetry ==
    \E j \in MediaJobIds :
        /\ mq[j].state = "delayed"
        /\ mq' = [mq EXCEPT ![j].state = "waiting"]
        /\ UNCHANGED <<mdisk, today, usedPaths>>
        /\ UNCHANGED notMedia

MediaNext ==
    \/ EarlierRun \/ ClockAdvance \/ MediaAdd \/ MediaTrim
    \/ MediaBegin \/ MediaFetch \/ MediaCrash \/ MediaRetry

\* job j starts a call of downloadMedia in this step
MediaCallStarts(j) == mq[j].state = "waiting" /\ mq'[j] # mq[j]

\* C18: calling downloadMedia again with the same item yields the same destination
\* path; a call that finds the destination with size > 0 reports it without a network
\* download; a call that finds it empty deletes it and downloads again.
C18_DownloadIdempotent ==
    [][ \A j \in MediaJobIds : MediaCallStarts(j) =>
          /\ Cardinality(usedPaths'[mq[j].item]) = 1
          /\ \A dest \in usedPaths'[mq[j].item] :
                /\ mdisk[dest] > 0 =>
                      /\ mq'[j].state = "completed" /\ mq'[j].filePath = dest
                      /\ ~mq'[j].fetched /\ mq'[j].pc # "fetching"
                      /\ mdisk' = mdisk
                /\ mdisk[dest] = 0 =>
                      (mdisk'[dest] = NoSize /\ mq'[j].pc = "fetching")
      ]_vars

\* a second job for an item whose first job downloaded the file completed on a later
\* day without downloading, and reports the same path
C18_Witness ==
    \E j, k \in MediaJobIds :
        /\ mq[k].state = "removed" /\ mq[k].fetched
        /\ mq[j].state = "completed" /\ ~mq[j].fetched
        /\ mq[j].item = mq[k].item
        /\ mq[j].filePath = mq[k].filePath
        /\ today > mq[j].item.bookmarkedAt

\* C19: a media-collection job is attempted at most 5 times; after its n-th failed
\* attempt (n < 5) it is delayed by 60 s * 2^(n-1) and tried again, whatever the
\* failure (file_missing for a transcript included); only the 5th failure is terminal.
C19_MediaRetryPolicy ==
    [][ \A j \in MediaJobIds :
          /\ mq'[j].attemptsMade <= 5
          /\ (mq[j].state = "active" /\ mq'[j].state \in {"delayed", "failed"}) =>
                /\ mq'[j].attemptsMade = mq[j].attemptsMade + 1
                /\ mq'[j].state = "delayed" <=> mq'[j].attemptsMade < 5
                /\ mq'[j].state = "delayed" =>
                      mq'[j].delay = 60000 * Pow2(mq'[j].attemptsMade - 1)
      ]_vars

\* a transcript that was still missing at the fourth attempt waits 8 minutes for the fifth
C19_Witness ==
    \E j \in MediaJobIds :
        /\ mq[j].item.mediaType = "transcript"
        /\ mq[j].lastReason = "file_missing"
        /\ mq[j].state = "delayed"
        /\ mq[j].attemptsMade = 4
        /\ mq[j].delay = 480000

\* C27: a media download never leaves a partial file at the destination path, also
\* after a timeout, an error or a crash: the destination is absent or holds a file
\* that was written completely.
C27_DestinationNeverPartial ==
    \A p \in MediaPaths : mdisk[p] # PartialSize

\* C28: two media jobs that run at the same time (different job ids, worker
\* concurrency 2) never write to the same weekly-bin file: their destination paths differ.
C28_ConcurrentJobsDistinctPaths ==
    \A j, k \in MediaJobIds :
        (j # k /\ mq[j].pc = "fetching" /\ mq[k].pc = "fetching") =>
            mq[j].dest # mq[k].dest


(***************************************************************************)
(* getISOWeekNumber as a function of the calendar date                     *)
(***************************************************************************)
WeekInit ==
    /\ weekDate = [y |-> FirstYear, m |-> 1, d |-> 1]
    /\ weekResult = GetISOWeekNumber([y |-> FirstYear, m |-> 1, d |-> 1])

\* the day after a calendar date
NextDate(date) ==
    IF date.d < DaysInMonth(date.y, date.m) THEN [date EXCEPT !.d = @ + 1]
    ELSE IF date.m < 12 THEN [date EXCEPT !.m = @ + 1, !.d = 1]
    ELSE [y |-> date.y + 1, m |-> 1, d |-> 1]

\* one call of getISOWeekNumber with a Date whose local calendar date is `date`;
\* the calls run through the calendar day by day
WeekOf ==
    /\ LET date == NextDate(weekDate) IN
         /\ date.y <= LastYear
         /\ weekDate' = date
         /\ weekResult' = GetISOWeekNumber(date)
    /\ UNCHANGED notWeek

WeekNext == WeekOf

\* ISO 8601: the first day (a Monday) of week 1 of year y, the week that holds January 4
IsoWeekOneStart(y) ==
    LET jan4 == YearStart(y) + 3
    IN  jan4 - ((UTCDay(jan4) + 6) % 7)

\* ISO 8601 week-numbering year and week of a calendar date
IsoWeek(date) ==
    LET n == EpochDay(date)
        wy == CHOOSE yy \in {date.y - 1, date.y, date.y + 1} :
                 IsoWeekOneStart(yy) <= n /\ n < IsoWeekOneStart(yy + 1)
    IN  [year |-> wy, week |-> ((n - IsoWeekOneStart(wy)) \div 7) + 1]

\* C23: getISOWeekNumber returns the ISO 8601 week-numbering year and week of every
\* date; 2020-01-01 is in 2020-W01, 2021-01-01 in 2020-W53, 2024-12-30 in 2025-W01.
C23_IsoWeekNumber ==
    /\ weekResult = IsoWeek(weekDate)
    /\ weekDate = [y |-> 2020, m |-> 1, d |-> 1] => weekResult = [year |-> 2020, week |-> 1]
    /\ weekDate = [y |-> 2021, m |-> 1, d |-> 1] => weekResult = [year |-> 2020, week |-> 53]
    /\ weekDate = [y |-> 2024, m |-> 12, d |-> 30] => weekResult = [year |-> 2025, week |-> 1]

\* the call for 2021-01-01 returned week 53 of 2020
C23_Witness ==
    /\ weekDate = [y |-> 2021, m |-> 1, d |-> 1]
    /\ weekResult = [year |-> 2020, week |-> 53]


(***************************************************************************)
(* The HTTP transport of the Whisper (ASR) request                         *)
(***************************************************************************)
\* how long the server takes, in milliseconds: to accept the connection, to send
\* the response headers (the transcription is computed before they are sent), and
\* the longest pause between two pieces of the body
ConnectDelays == {1000, 29000, 31000, 300000}
HeaderDelays == {60000, 1799000, 1801000, 7200000, 14400000}
BodyGaps == {1000, 1799000, 1801000, 14400000}

AsrIdle == [pc |-> "idle", connectMs |-> 0, headersMs |-> 0, bodyMs |-> 0]

AsrInit == asr = AsrIdle

\* undici aborts a phase that lasts longer than the agent's timeout for it
TimesOut(elapsed, limit) == elapsed > limit

\* transcribeAudio: fetch(url, { method: 'POST', body, dispatcher: whisperAgent })
AsrRequest ==
    /\ asr.pc = "idle"
    /\ \E c \in ConnectDelays, hd \in HeaderDelays, b \in BodyGaps :
         asr' = [pc |-> "connecting", connectMs |-> c, headersMs |-> hd, bodyMs |-> b]
    /\ UNCHANGED notAsr

AsrConnect ==
    /\ asr.pc = "connecting"
    /\ asr' = [asr EXCEPT !.pc = IF TimesOut(asr.connectMs, WhisperConnectTimeout)
                                 THEN "aborted" ELSE "headers"]
    /\ UNCHANGED notAsr

\* await fetch(...) resolves when the response headers arrive
AsrHeaders ==
    /\ asr.pc = "headers"
    /\ asr' = [asr EXCEPT !.pc = IF TimesOut(asr.headersMs, WhisperHeadersTimeout)
                                 THEN "aborted" ELSE "body"]
    /\ UNCHANGED notAsr

\* await response.text()
AsrBody ==
    /\ asr.pc = "body"
    /\ asr' = [asr EXCEPT !.pc = IF TimesOut(asr.bodyMs, WhisperBodyTimeout)
                                 THEN "aborted" ELSE "done"]
    /\ UNCHANGED notAsr

\* the request is over; the next transcription starts a new one
AsrEnd ==
    /\ asr.pc \in {"done", "aborted"}
    /\ asr' = AsrIdle
    /\ UNCHANGED notAsr

AsrNext == AsrRequest \/ AsrConnect \/ AsrHeaders \/ AsrBody \/ AsrEnd

\* C24: the transport of the Whisper request allows at least 4 hours for the response
\* headers and for the body and about 5 minutes for the connection, so a request
\* whose phases stay within these times is not aborted by the client.
C24_FourHourResponseNotAborted ==
    (/\ asr.connectMs <= 300000
     /\ asr.headersMs <= 14400000
     /\ asr.bodyMs <= 14400000) => asr.pc # "aborted"


(***************************************************************************)
(* The router's media enqueue and the job ids of the media-collection      *)
(* queue                                                                   *)
(***************************************************************************)
\* canonical URLs of bookmarks, one character per element
UrlPathAB == <<"h", "t", "t", "p", "s", ":", "/", "/", "e", ".", "c", "o", "/", "a", "/", "b">>
UrlQueryAB == <<"h", "t", "t", "p", "s", ":", "/", "/", "e", ".", "c", "o", "/", "a", "?", "b">>

RouteUrls == {UrlPathAB, UrlQueryAB} \cup {UrlChars(c) : c \in CanonicalUrls}

\* job data of metadata jobs: the bookmark's URL, its canonical URL and the media
\* type of its enclosure
RouteItems ==
    [url : {"https://e.co/a/b"}, canonicalUrl : {UrlPathAB}, enc : {"video"}]
    \cup [url : {"https://e.co/a?b"}, canonicalUrl : {UrlQueryAB}, enc : {"video"}]
    \cup { [url |-> u, canonicalUrl |-> UrlChars(NormalizeBookmarkUrl(u)), enc |-> e] :
             <<u, e>> \in { <<"https://www.example.com/x?utm_source=rss", "none">>,
                            <<"https://example.com/x", "pdf">>,
                            <<"https://podcasts.apple.com/us/podcast/x/id1?i=10", "none">>,
                            <<"https://youtube.com/watch?v=1", "video">>,
                            <<"https://www.youtube.com/watch?v=1", "none">> } }

\* hasMediaEnclosure
HasMediaEnclosure(item) == item.enc # "none"

NoAdd == [item |-> [url |-> "", canonicalUrl |-> << >>, enc |-> "none"], id |-> << >>,
          created |-> FALSE, target |-> "none"]

\* states in which a job is still to be worked on
NonTerminal == {"waiting", "active", "delayed"}

MediaJobId_Auto(item, n) == <<ToString(n)>>

\* the jobId option of the add: sanitizeJobId('media', enrichedItem.canonicalUrl)
MediaJobId(item, n) == SanitizeJobId("media", item.canonicalUrl)

\* Queue.add with a jobId: BullMQ creates no job when one with that id is in the queue
QueueAdd(q, id, url) ==
    IF \E i \in DOMAIN q : q[i].id = id
    THEN q
    ELSE Append(q, [id |-> id, url |-> url, state |-> "waiting"])

\* what the handler does with the item after the media enqueue: return for an
\* uploaded PDF, the podcast queue, the video-only skip, or the conversion queue
RouteTarget(item) ==
    IF HasMediaEnclosure(item) /\ item.enc = "pdf" THEN "mediaOnly"
    ELSE IF IsApplePodcastsUrl(item.url) THEN "podcast"
    ELSE IF IsVideoOnlyUrl(item.url) THEN "skipped"
    ELSE "conversion"

RouteInit ==
    /\ rq = << >>
    /\ routes = 0
    /\ lastAdd = NoAdd

\* a run of the metadata handler from `if (hasMediaEnclosure(enrichedItem))` to its
\* return: the media enqueue, then the routing of the item
RouteMedia ==
    \E item \in RouteItems :
        /\ routes < MaxRoutes
        /\ routes' = routes + 1
        /\ IF HasMediaEnclosure(item)
           THEN LET id == MediaJobId(item, routes + 1) IN
                /\ rq' = QueueAdd(rq, id, item.canonicalUrl)
                /\ lastAdd' = [item |-> item, id |-> id, created |-> rq' # rq,
                               target |-> RouteTarget(item)]
           ELSE /\ UNCHANGED rq
                /\ lastAdd' = [NoAdd EXCEPT !.item = item, !.target = RouteTarget(item)]
        /\ UNCHANGED notRoute

\* the media worker takes a job, and the job's attempt ends
RouteWork ==
    \E i \in DOMAIN rq :
        /\ \/ /\ rq[i].state = "waiting"
              /\ Cardinality({k \in DOMAIN rq : rq[k].state = "active"}) < MediaConcurrency
              /\ rq' = [rq EXCEPT ![i].state = "active"]
           \/ /\ rq[i].state = "active"
              /\ \E next \in {"completed", "delayed", "failed"} :
                    rq' = [rq EXCEPT ![i].state = next]
           \/ /\ rq[i].state = "delayed"
              /\ rq' = [rq EXCEPT ![i].state = "waiting"]
        /\ UNCHANGED <<routes, lastAdd>>
        /\ UNCHANGED notRoute

\* removeOnComplete { count: 500 } drops an old completed job; failed jobs stay
\* (removeOnFail: false)
RouteTrim ==
    \E i \in DOMAIN rq :
        /\ rq[i].state = "completed"
        /\ rq' = [k \in 1..(Len(rq) - 1) |-> IF k < i THEN rq[k] ELSE rq[k + 1]]
        /\ UNCHANGED <<routes, lastAdd>>
        /\ UNCHANGED notRoute

RouteNext == RouteMedia \/ RouteWork \/ RouteTrim

\* C31: an item with an enclosure is enqueued under the job id made from its
\* canonical URL, an add whose id is already in the queue creates no job, and so at
\* most one non-terminal media-collection job exists per canonical URL at any time,
\* however often the item is routed.
C31_OneLiveMediaJobPerUrl ==
    /\ \A u \in RouteUrls :
          Cardinality({i \in DOMAIN rq : rq[i].url = u /\ rq[i].state \in NonTerminal}) <= 1
    /\ \A i \in DOMAIN rq : rq[i].id = SanitizeJobId("media", rq[i].url)

\* an item was routed again while its job was still live, and no second job was made
C31_Witness ==
    /\ routes >= 2
    /\ lastAdd.id # << >> /\ ~lastAdd.created
    /\ Cardinality({i \in DOMAIN rq : rq[i].url = lastAdd.item.canonicalUrl
                                        /\ rq[i].state \in NonTerminal}) = 1

\* C40: distinct canonical URLs have distinct media-collection job ids, so an add is
\* suppressed as a duplicate only when a job for the same URL is in the queue.
C40_DistinctUrlsDistinctJobIds ==
    (lastAdd.id # << >> /\ ~lastAdd.created) =>
        \E i \in DOMAIN rq : rq[i].url = lastAdd.item.canonicalUrl

\* C35: a routed item gives at most one of a podcast job or a conversion job, and
\* neither when its mediaType is pdf or its URL is on a video-only host; a conversion
\* job is enqueued only when none of the pdf, podcast and video-only rules applied.
C35_RoutingRulesExclusive ==
    LET item == lastAdd.item
        isPdf == item.enc = "pdf"
        isVideoHost == Hostname(item.url) \in VideoOnlyHosts
        podcast == lastAdd.target = "podcast"
        conversion == lastAdd.target = "conversion"
    IN  routes > 0 =>
          /\ ~(podcast /\ conversion)
          /\ (isPdf \/ isVideoHost) => (~podcast /\ ~conversion)
          /\ conversion <=> (~isPdf /\ ~IsApplePodcastsUrl(item.url) /\ ~isVideoHost)

\* a bookmark of a video-only host without an enclosure was routed and skipped
C35_Witness ==
    /\ lastAdd.item.url = "https://www.youtube.com/watch?v=1"
    /\ lastAdd.item.enc = "none"
    /\ lastAdd.target = "skipped"


(***************************************************************************)
(* parseKarakeepFeed: pagination of the Karakeep API                       *)
(***************************************************************************)
\* bookmarks the user adds between two steps of the poller
AddBatches == {1, PAGE_LIMIT + 1, MAX_PAGES * PAGE_LIMIT + 1}

NoCursor == 0
\* kLast while no poll has run since the last addition, and while one is running
NoPollYet == 0 - 1
Polling == 0 - 2

KIdle == [pc |-> "idle", cursor |-> NoCursor, pageCount |-> 0, items |-> {},
          foundSeenItem |-> FALSE]

PageInit ==
    /\ kTotal = 0
    /\ kSeen = {}
    /\ kp = KIdle
    /\ kAdds = 0
    /\ kLast = NoPollYet

\* the user bookmarks n more pages in Karakeep
KBookmark ==
    \E n \in AddBatches :
        /\ kAdds < MaxAdds
        /\ kTotal + n <= MaxBookmarks
        /\ kTotal' = kTotal + n
        /\ kAdds' = kAdds + 1
        /\ kLast' = NoPollYet
        /\ UNCHANGED <<kSeen, kp>>
        /\ UNCHANGED notPage

\* GET /api/v1/bookmarks?limit=50&cursor=...: the newest bookmarks older than the cursor
PageOf(total, cursor) ==
    LET newest == IF cursor = NoCursor THEN total ELSE cursor - 1
        oldest == IF newest - PAGE_LIMIT + 1 > 1 THEN newest - PAGE_LIMIT + 1 ELSE 1
    IN  [bookmarks |-> oldest..newest,
         nextCursor |-> IF oldest > 1 THEN oldest ELSE NoCursor]

HitPageCap_Never(pageCount) == FALSE

\* if (pageCount >= MAX_PAGES) break
HitPageCap(pageCount) == pageCount >= MAX_PAGES

\* the poll handler of the karakeep source calls parseKarakeepFeed
KStart ==
    /\ kp.pc = "idle"
    /\ kp' = [KIdle EXCEPT !.pc = "page"]
    /\ kLast' = Polling
    /\ UNCHANGED <<kTotal, kSeen, kAdds>>
    /\ UNCHANGED notPage

\* one iteration of the do-while loop: fetch a page, collect its unseen bookmarks,
\* decide whether to go on
KPage ==
    /\ kp.pc = "page"
    /\ LET data == PageOf(kTotal, kp.cursor)
           pageCount == kp.pageCount + 1
           foundSeenItem == \E b \in data.bookmarks : b \in kSeen
           allItems == kp.items \cup {b \in data.bookmarks : b \notin kSeen}
           goOn == /\ ~foundSeenItem
                   /\ ~HitPageCap(pageCount)
                   /\ data.nextCursor # NoCursor
       IN  kp' = [pc |-> IF goOn THEN "page" ELSE "parsed",
                  cursor |-> IF foundSeenItem THEN kp.cursor ELSE data.nextCursor,
                  pageCount |-> pageCount,
                  items |-> allItems,
                  foundSeenItem |-> foundSeenItem]
    /\ UNCHANGED <<kTotal, kSeen, kAdds, kLast>>
    /\ UNCHANGED notPage

\* the handler's item loop and bulk add: every returned item is marked and emitted
KEmit ==
    /\ kp.pc = "parsed"
    /\ kSeen' = kSeen \cup kp.items
    /\ kLast' = IF kLast = Polling THEN Cardinality(kp.items) ELSE NoPollYet
    /\ kp' = KIdle
    /\ UNCHANGED <<kTotal, kAdds>>
    /\ UNCHANGED notPage

PageNext == KBookmark \/ KStart \/ KPage \/ KEmit

\* a poll that started after the last addition has finished and emitted nothing:
\* every later poll sees the same first page and does the same
KCaughtUp == kp.pc = "idle" /\ kLast = 0

\* C32: every bookmark in the Karakeep feed is emitted and marked seen by some poll,
\* for any number of bookmarks added between polls, more than 20 pages' worth
\* included: once the poller has caught up, no bookmark is left unseen.
C32_EveryBookmarkEventuallySeen ==
    KCaughtUp => \A b \in 1..kTotal : b \in kSeen

\* C33: a Karakeep poll fetches at most 20 pages; it stops after the first page with
\* an already-seen guid, or when the response has no nextCursor, or at the 20-page
\* cap, whichever comes first, and goes on otherwise.
C33_PaginationStops ==
    [][ /\ kp'.pageCount <= 20
        /\ (kp.pc = "page" /\ kp' # kp) =>
              LET page == PageOf(kTotal, kp.cursor) IN
              /\ kp'.pageCount = kp.pageCount + 1
              /\ kp'.pc = "parsed" <=>
                    \/ page.bookmarks \cap kSeen # {}
                    \/ page.nextCursor = NoCursor
                    \/ kp'.pageCount = 20
      ]_vars

\* a poll stopped at the cap: 20 pages, none with a seen guid, and more to fetch
C33_Witness ==
    /\ kp.pc = "parsed"
    /\ kp.pageCount = 20
    /\ ~kp.foundSeenItem
    /\ kp.cursor # NoCursor
    /\ Cardinality(kp.items) = 1000

(***************************************************************************)
(* The podcast transcription worker                                        *)
(***************************************************************************)
PodJobIds == 1..MaxPodJobs

NoPodJob == [state |-> "none", attemptsMade |-> 0, pc |-> "idle"]

PodInit ==
    /\ podq = [j \in PodJobIds |-> NoPodJob]
    /\ ptemp = [j \in PodJobIds |-> {}]
    /\ parchived = {}
    /\ pnotified = [j \in PodJobIds |-> 0]

\* podcastQueue.add('transcribe-podcast', ...)
PodAdd ==
    \E j \in PodJobIds :
        /\ podq[j].state = "none"
        /\ \A k \in PodJobIds : k < j => podq[k].state # "none"
        /\ podq' = [podq EXCEPT ![j].state = "waiting"]
        /\ UNCHANGED <<ptemp, parchived, pnotified>>
        /\ UNCHANGED notPod

\* the worker (concurrency 1) takes a job and the handler starts
PodStart ==
    \E j \in PodJobIds :
        /\ podq[j].state = "waiting"
        /\ \A k \in PodJobIds : podq[k].state # "active"
        /\ podq' = [podq EXCEPT ![j].state = "active", ![j].pc = "metadata"]
        /\ UNCHANGED <<ptemp, parchived, pnotified>>
        /\ UNCHANGED notPod

PodWillRetry(made) == made < PodcastAttempts

\* the handler's catch block saves the debug info and re-throws; BullMQ counts the
\* attempt, delays or fails the job and emits 'failed', whose listener sends the
\* failure notification
PodFails(j) ==
    LET made == podq[j].attemptsMade + 1 IN
    /\ podq' = [podq EXCEPT ![j].attemptsMade = made, ![j].pc = "idle",
                          ![j].state = IF PodWillRetry(made) THEN "delayed" ELSE "failed"]
    /\ pnotified' = [pnotified EXCEPT ![j] = @ + 1]

\* getPodcastMetadata
PodMetadata ==
    \E j \in PodJobIds :
        /\ podq[j].state = "active" /\ podq[j].pc = "metadata"
        /\ \/ podq' = [podq EXCEPT ![j].pc = "transcribe"] /\ UNCHANGED pnotified
           \/ PodFails(j)
        /\ UNCHANGED <<ptemp, parchived>>
        /\ UNCHANGED notPod

\* transcribePodcast: downloadAudio writes TEMP_DIR/{uuid}.{ext}, then transcribeAudio
\* sends it to Whisper
PodTranscribe ==
    \E j \in PodJobIds :
        /\ podq[j].state = "active" /\ podq[j].pc = "transcribe"
        /\ \/ /\ ptemp' = [ptemp EXCEPT ![j] = @ \cup {podq[j].attemptsMade + 1}]
              /\ podq' = [podq EXCEPT ![j].pc = "format"]
              /\ UNCHANGED pnotified
           \/ \E downloaded \in BOOLEAN :
                /\ ptemp' = IF downloaded
                            THEN [ptemp EXCEPT ![j] = @ \cup {podq[j].attemptsMade + 1}]
                            ELSE ptemp
                /\ PodFails(j)
        /\ UNCHANGED parchived
        /\ UNCHANGED notPod

\* formatTranscriptWithLLM, then generateTranscriptPdf
PodFormat ==
    \E j \in PodJobIds :
        /\ podq[j].state = "active" /\ podq[j].pc \in {"format", "pdf"}
        /\ \/ /\ podq' = [podq EXCEPT ![j].pc = IF podq[j].pc = "format" THEN "pdf" ELSE "save"]
              /\ UNCHANGED pnotified
           \/ PodFails(j)
        /\ UNCHANGED <<ptemp, parchived>>
        /\ UNCHANGED notPod

\* writeFile(pdfPath), copyFile(tempAudioPath, audioPath), unlink(tempAudioPath),
\* then the logs, the success notification and the return
PodSave ==
    \E j \in PodJobIds :
        /\ podq[j].state = "active" /\ podq[j].pc = "save"
        /\ \/ /\ parchived' = parchived \cup {j}
              /\ ptemp' = [ptemp EXCEPT ![j] = @ \ {podq[j].attemptsMade + 1}]
              /\ podq' = [podq EXCEPT ![j].attemptsMade = @ + 1, ![j].pc = "idle",
                                    ![j].state = "completed"]
              /\ UNCHANGED pnotified
           \/ /\ PodFails(j)
              /\ UNCHANGED <<ptemp, parchived>>
        /\ UNCHANGED notPod

\* the backoff delay has passed
PodRetry ==
    \E j \in PodJobIds :
        /\ podq[j].state = "delayed"
        /\ podq' = [podq EXCEPT ![j].state = "waiting"]
        /\ UNCHANGED <<ptemp, parchived, pnotified>>
        /\ UNCHANGED notPod

PodNext ==
    \/ PodAdd \/ PodStart \/ PodMetadata \/ PodTranscribe \/ PodFormat \/ PodSave
    \/ PodRetry

\* C36: for a podcast job a failure notification is emitted exactly once, only when
\* the final allowed attempt (attempts = 2) has failed; a failed first attempt that
\* will be retried emits none.
C36_PodcastFailureNotifiedOnce ==
    \A j \in PodJobIds : pnotified[j] = IF podq[j].state = "failed" THEN 1 ELSE 0

\* C37: every temporary audio file a podcast attempt created is removed by the end
\* of that attempt, whether it succeeded or failed; no temporary audio file stays
\* across attempts.
C37_NoTempAudioBetweenAttempts ==
    \A j \in PodJobIds : podq[j].state # "active" => ptemp[j] = {}

\* ---------------------------------------------------------------------------
\* Pending fix requests (src/fix/pending.ts, src/workers/fix.worker.ts)
\* ---------------------------------------------------------------------------

FixUrls == {"u1", "u2"}

FixBatches == {<<"u1">>, <<"u2">>, <<"u1", "u2">>}

FixCount(list, u) == Cardinality({i \in DOMAIN list : list[i] = u})

FixAddIdle == [pc |-> "idle", items |-> <<>>, i |-> 1]

FixConsIdle == [pc |-> "idle", items |-> <<>>]

FixInit ==
    /\ fxPending = <<>>
    /\ fxRecent = {}
    /\ fxAdd = FixAddIdle
    /\ fxCons = FixConsIdle
    /\ fxPushed = <<>>
    /\ fxReturned = <<>>
    /\ fxCalls = [add |-> 0, consume |-> 0]

\* POST /api/fix/submit calls addPendingFixes(items); an empty list returns at once.
AddPendingFixes ==
    /\ fxAdd.pc = "idle"
    /\ fxCalls.add < MaxFixCalls
    /\ \E items \in FixBatches :
        fxAdd' = [pc |-> "hget", items |-> items, i |-> 1]
    /\ fxCalls' = [fxCalls EXCEPT !.add = @ + 1]
    /\ UNCHANGED <<fxPending, fxRecent, fxCons, fxPushed, fxReturned>>
    /\ UNCHANGED notFix

\* await hget(RECENT_ATTEMPTS, item.url): skip the item when recently attempted;
\* past the last item the call returns.
AddCheckRecent ==
    /\ fxAdd.pc = "hget"
    /\ fxAdd' = IF fxAdd.i > Len(fxAdd.items) THEN FixAddIdle
                ELSE IF fxAdd.items[fxAdd.i] \in fxRecent
                     THEN [fxAdd EXCEPT !.i = @ + 1]
                     ELSE [fxAdd EXCEPT !.pc = "rpush"]
    /\ UNCHANGED <<fxPending, fxRecent, fxCons, fxPushed, fxReturned, fxCalls>>
    /\ UNCHANGED notFix

\* await rpush(PENDING, JSON.stringify(item))
AddPush ==
    /\ fxAdd.pc = "rpush"
    /\ fxPending' = Append(fxPending, fxAdd.items[fxAdd.i])
    /\ fxPushed' = Append(fxPushed, fxAdd.items[fxAdd.i])
    /\ fxAdd' = [fxAdd EXCEPT !.pc = "hset"]
    /\ UNCHANGED <<fxRecent, fxCons, fxReturned, fxCalls>>
    /\ UNCHANGED notFix

\* await hset(RECENT_ATTEMPTS, item.url, now); added++
AddMark ==
    /\ fxAdd.pc = "hset"
    /\ fxRecent' = fxRecent \cup {fxAdd.items[fxAdd.i]}
    /\ fxAdd' = [fxAdd EXCEPT !.pc = "hget", !.i = @ + 1]
    /\ UNCHANGED <<fxPending, fxCons, fxPushed, fxReturned, fxCalls>>
    /\ UNCHANGED notFix

\* processFixJob calls consumePendingFixes: await lrange(PENDING, 0, -1); an empty
\* list is returned at once. The fix worker runs one job at a time.
ConsumeRead ==
    /\ fxCons.pc = "idle"
    /\ fxCalls.consume < MaxFixCalls
    /\ fxCons' = IF fxPending = <<>> THEN FixConsIdle
                 ELSE [pc |-> "del", items |-> fxPending]
    /\ fxCalls' = [fxCalls EXCEPT !.consume = @ + 1]
    /\ UNCHANGED <<fxPending, fxRecent, fxAdd, fxPushed, fxReturned>>
    /\ UNCHANGED notFix

\* await del(PENDING); return the items read by lrange.
ConsumeClear ==
    /\ fxCons.pc = "del"
    /\ fxPending' = <<>>
    /\ fxReturned' = fxReturned \o fxCons.items
    /\ fxCons' = FixConsIdle
    /\ UNCHANGED <<fxRecent, fxAdd, fxPushed, fxCalls>>
    /\ UNCHANGED notFix

FixNext ==
    \/ AddPendingFixes
    \/ AddCheckRecent
    \/ AddPush
    \/ AddMark
    \/ ConsumeRead
    \/ ConsumeClear

\* C38: consumePendingFixes reads and clears the pending list as one atomic step:
\* whenever no consume call is in flight, every item that was pushed is either
\* still pending or was returned by a consume call, exactly once.
C38_ConsumeLosesNothing ==
    fxCons.pc = "idle" =>
        \A u \in FixUrls :
            FixCount(fxPushed, u) = FixCount(fxPending, u) + FixCount(fxReturned, u)

\* ---------------------------------------------------------------------------
\* Transcript chunking for LLM reformatting (src/podcasts/transcript-formatter.ts)
\* ---------------------------------------------------------------------------

\* A transcript is its length and the places where a paragraph break "\n\n" or a
\* sentence end ". " begins (0-based indexes); every other character is a letter.
SepPositions == {7498, 7500, 14998, 15000, 22501}

TextLengths == {499, 15000, 15001, 15002, 30002}

SepKinds == {"none", "para", "sent"}

Transcripts ==
    {t \in [len : TextLengths, marks : [SepPositions -> SepKinds]] :
        \A p \in SepPositions : p + 3 > t.len => t.marks[p] = "none"}

NoTranscript == [len |-> 0, marks |-> [p \in SepPositions |-> "none"]]

\* Whether the character at index i is white space: both characters of "\n\n",
\* and the blank of ". ".
IsSpaceAt(text, i) ==
    \E p \in SepPositions :
        \/ text.marks[p] = "para" /\ i \in {p, p + 1}
        \/ text.marks[p] = "sent" /\ i = p + 1

\* String.prototype.trim on the remainder that starts at index start: the leading
\* white space goes (the transcripts above end with a letter).
RECURSIVE TrimStart(_, _)
TrimStart(text, start) ==
    IF start < text.len /\ IsSpaceAt(text, start)
    THEN TrimStart(text, start + 1)
    ELSE start

\* remaining.lastIndexOf(sep, position) for the remainder that starts at index
\* start: the greatest index at most position where sep begins, or -1.
LastIndexOf(text, start, kind, position) ==
    LET found == {p - start : p \in {q \in SepPositions :
                      /\ text.marks[q] = kind
                      /\ q >= start
                      /\ q - start <= position}}
    IN IF found = {} THEN 0 - 1
       ELSE CHOOSE m \in found : \A n \in found : n <= m

TooEarly(splitPoint, max) == splitPoint = 0 - 1 \/ splitPoint * 2 < max

SplitPoint(text, start, max) ==
    LET para == LastIndexOf(text, start, "para", max)
        sent == LastIndexOf(text, start, "sent", max)
    IN IF ~TooEarly(para, max) THEN para
       ELSE IF ~TooEarly(sent, max) THEN sent
       ELSE max

ChunkEnd(splitPoint) == splitPoint + 1

\* The while loop of formatLongTranscript: the lengths of the chunks it pushes.
RECURSIVE FormatLongTranscript(_, _, _)
FormatLongTranscript(text, start, max) ==
    IF text.len - start <= 0 THEN <<>>
    ELSE IF text.len - start <= max THEN <<text.len - start>>
    ELSE LET splitPoint == SplitPoint(text, start, max)
         IN <<ChunkEnd(splitPoint)>> \o
            FormatLongTranscript(text, TrimStart(text, start + ChunkEnd(splitPoint)), max)

\* The chunks formatTranscriptWithLLM sends to the model: none for a short
\* transcript, the whole text up to maxChunkSize, the split otherwise.
ChunksSent(text) ==
    IF text.len < ShortTranscript THEN <<>>
    ELSE IF text.len > maxChunkSize THEN FormatLongTranscript(text, 0, maxChunkSize)
    ELSE <<text.len>>

ChunkInit ==
    /\ chText = NoTranscript
    /\ chChunks = <<>>
    /\ chDone = FALSE

FormatTranscriptWithLLM ==
    /\ ~chDone
    /\ \E text \in Transcripts :
        /\ chText' = text
        /\ chChunks' = ChunksSent(text)
    /\ chDone' = TRUE
    /\ UNCHANGED notChunk

ChunkNext == FormatTranscriptWithLLM

\* C39: when a transcript is split for LLM reformatting, every chunk sent to the
\* model is at most maxChunkSize (15 000) characters long, for every input.
C39_ChunksWithinLimit ==
    \A i \in DOMAIN chChunks : chChunks[i] <= maxChunkSize

Init == ConvInit /\ FeedInit /\ ProcInit /\ ApiInit /\ MediaInit /\ WeekInit /\ AsrInit /\ RouteInit /\ PageInit /\ PodInit /\ FixInit /\ ChunkInit

SpecConv == Init /\ [][ConvNext]_vars

SpecFeed == Init /\ [][FeedNext]_vars

SpecProc == Init /\ [][ProcNext]_vars

SpecApi == Init /\ [][ApiNext]_vars

SpecMedia == Init /\ [][MediaNext]_vars

SpecWeek == Init /\ [][WeekNext]_vars

SpecAsr == Init /\ [][AsrNext]_vars

SpecRoute == Init /\ [][RouteNext]_vars

SpecPage == Init /\ [][PageNext]_vars

SpecPod == Init /\ [][PodNext]_vars

SpecFix == Init /\ [][FixNext]_vars

SpecChunk == Init /\ [][ChunkNext]_vars

====
